---------------------------- MODULE Spec2Model ----------------------------
(***************************************************************************)
(* Model of the live transcriber: the per-speaker language resolver, the   *)
(* session store with its persistence and segment save, the transcript     *)
(* assembler and the scroll view (src/live_transcriber/session.py, ui.py,  *)
(* transcription.py).                                                      *)
(*                                                                         *)
(* Conventions.  A Python Optional is a sequence of length 0 or 1: None is *)
(* <<>> and a present value v is <<v>>.  A string of text is a sequence of *)
(* atoms: a word, the blank " " or the marker "<end>".  A confidence is an *)
(* integer percentage (0.5 is 50).  A dict is kept in insertion order: the *)
(* language_counts of a profile is a sequence of <<language, count>>.      *)
(***************************************************************************)
EXTENDS Integers, Sequences, FiniteSets, TLC

VARIABLES
    \* Session (session.py:78-88)
    source_languages, target_language, speaker_profiles, final_tokens,
    segment_count, audio_frames, was_resumed,
    \* the session directory: the state file and the segment artifacts
    state_file, segment_files,
    \* LiveTranscriptUI (ui.py:149-163)
    non_final_tokens, scroll_mode, scroll_offset, scroll_lines,
    scroll_total_lines, error_message, running,
    \* where LiveTranscriptUI.run is: "constructed", "loop" or "done"
    ui_pc,
    \* Transcriber (transcription.py:99): _running, and where the receive
    \* thread is in _receive_messages
    transcriber_running, receiver,
    \* the uncaught exception that ended the program, "" while there is none
    crashed,
    \* what the last call of an observed operation took and returned, and the
    \* messages the receive thread has taken from the socket
    resolved, rendered, plain_text, saved, delivered

vars == <<source_languages, target_language, speaker_profiles, final_tokens,
          segment_count, audio_frames, was_resumed, state_file, segment_files,
          non_final_tokens, scroll_mode, scroll_offset, scroll_lines,
          scroll_total_lines, error_message, running, ui_pc,
          transcriber_running, receiver, crashed,
          resolved, rendered, plain_text, saved, delivered>>

sessionVars == <<source_languages, target_language, speaker_profiles,
                 final_tokens, segment_count, audio_frames, was_resumed>>
diskVars == <<state_file, segment_files>>
displayVars == <<scroll_mode, scroll_offset, scroll_lines, scroll_total_lines,
                 error_message, running, ui_pc>>
uiVars == <<non_final_tokens, displayVars>>
callVars == <<resolved, rendered, plain_text, saved>>
procVars == <<transcriber_running, receiver, crashed, delivered>>

-----------------------------------------------------------------------------
(* Optionals and small helpers *)

None == <<>>
Some(x) == <<x>>
IsNone(o) == o = <<>>
Val(o) == o[1]

Max(a, b) == IF a >= b THEN a ELSE b
Min(a, b) == IF a <= b THEN a ELSE b

\* F of the value of x, x evaluated once
Apply(x, F(_)) == CHOOSE y \in { F(v) : v \in {x} } : TRUE

-----------------------------------------------------------------------------
(* Bounds of the model *)

\* samples recorded over all profiles in the resolver specification
MaxSamples == 3

-----------------------------------------------------------------------------
(* Tokens *)

\* LANGUAGE_CONFIDENCE_THRESHOLD = 0.5, as a percentage
LANGUAGE_CONFIDENCE_THRESHOLD == 50

\* the fallback language of resolve_language
DEFAULT_LANGUAGE == "en"

Token(text, speaker, language, confidence, source, status, final) ==
    [text |-> text, speaker |-> speaker, language |-> language,
     language_confidence |-> confidence, source_language |-> source,
     translation_status |-> status, is_final |-> final,
     resolved_language |-> None]

-----------------------------------------------------------------------------
(* SpeakerProfile (session.py:25-65) *)

NewProfile(speaker_id) ==
    [speaker_id |-> speaker_id, language_counts |-> <<>>,
     last_language |-> None, total_samples |-> 0]

\* language_counts[language] += 1 on a defaultdict(int): a new key goes last
IncrementCount(counts, language) ==
    IF \E i \in 1..Len(counts) : counts[i][1] = language
    THEN [i \in 1..Len(counts) |->
            IF counts[i][1] = language
            THEN <<counts[i][1], counts[i][2] + 1>> ELSE counts[i]]
    ELSE Append(counts, <<language, 1>>)

AddSampleNoTotal(profile, language) ==
    [profile EXCEPT !.language_counts = IncrementCount(@, language),
                    !.last_language = Some(language)]

AddSampleKeepingLast(profile, language) ==
    [profile EXCEPT !.language_counts = IncrementCount(@, language),
                    !.total_samples = @ + 1]

add_sample(profile, language) ==
    [profile EXCEPT !.language_counts = IncrementCount(@, language),
                    !.last_language = Some(language),
                    !.total_samples = @ + 1]

RECURSIVE SumCounts(_)
SumCounts(counts) ==
    IF counts = <<>> THEN 0 ELSE counts[1][2] + SumCounts(Tail(counts))

CountOf(counts, language) ==
    IF \E i \in 1..Len(counts) : counts[i][1] = language
    THEN LET i == CHOOSE j \in 1..Len(counts) : counts[j][1] = language
         IN  counts[i][2]
    ELSE 0

\* str(n) of a non-negative integer: its decimal digits
Digits == <<"0", "1", "2", "3", "4", "5", "6", "7", "8", "9">>

RECURSIVE IntToStr(_)
IntToStr(n) ==
    IF n < 10 THEN <<Digits[n + 1]>>
    ELSE IntToStr(n \div 10) \o <<Digits[(n % 10) + 1]>>

\* a maximum that takes the last of the keys with the largest count
DominantLastSeen(profile) ==
    LET counts == profile.language_counts
    IN  IF counts = <<>> THEN None
        ELSE LET best == CHOOSE i \in 1..Len(counts) :
                           /\ \A j \in 1..Len(counts) : counts[j][2] <= counts[i][2]
                           /\ \A j \in (i + 1)..Len(counts) : counts[j][2] < counts[i][2]
             IN  Some(counts[best][1])

\* max(language_counts, key=language_counts.get): the first key that has the
\* largest count, or None without samples
get_dominant_language(profile) ==
    LET counts == profile.language_counts
    IN  IF counts = <<>> THEN None
        ELSE LET best == CHOOSE i \in 1..Len(counts) :
                           /\ \A j \in 1..Len(counts) : counts[j][2] <= counts[i][2]
                           /\ \A j \in 1..(i - 1) : counts[j][2] < counts[i][2]
             IN  Some(counts[best][1])

\* f"Speaker {self.speaker_id}"
get_label(profile) == <<"Speaker", " ">> \o IntToStr(profile.speaker_id)

\* Session.get_speaker_profile: get or create; the table after the call
get_speaker_profile(profiles, speaker_id) ==
    IF speaker_id \in DOMAIN profiles
    THEN profiles
    ELSE profiles @@ (speaker_id :> NewProfile(speaker_id))

-----------------------------------------------------------------------------
(* resolve_language (session.py:292-318): the result and the profile table  *)
(* after the call                                                           *)

Confidence(token) ==
    IF IsNone(token.language_confidence) THEN 100
    ELSE Val(token.language_confidence)

ResolveIgnoringConfidence(token, profiles) ==
    IF IsNone(token.speaker)
    THEN [result |-> IF IsNone(token.language) THEN DEFAULT_LANGUAGE
                     ELSE Val(token.language),
          profiles |-> profiles]
    ELSE LET sid == Val(token.speaker)
             table == get_speaker_profile(profiles, sid)
             last_lang == table[sid].last_language
         IN  IF ~IsNone(token.language)
             THEN [result |-> Val(token.language),
                   profiles |-> [table EXCEPT
                       ![sid] = add_sample(@, Val(token.language))]]
             ELSE IF ~IsNone(last_lang)
             THEN [result |-> Val(last_lang), profiles |-> table]
             ELSE [result |-> DEFAULT_LANGUAGE, profiles |-> table]

\* a resolver that files a token without speaker under speaker 0
ResolveUnknownAsSpeakerZero(token, profiles) ==
    IF IsNone(token.speaker)
    THEN [result |-> IF IsNone(token.language) THEN DEFAULT_LANGUAGE
                     ELSE Val(token.language),
          profiles |-> get_speaker_profile(profiles, 0)]
    ELSE ResolveIgnoringConfidence(token, profiles)

\* a resolver that records the language it falls back to as a sample
ResolveSamplingFallback(token, profiles) ==
    IF IsNone(token.speaker)
    THEN [result |-> IF IsNone(token.language) THEN DEFAULT_LANGUAGE
                     ELSE Val(token.language),
          profiles |-> profiles]
    ELSE LET sid == Val(token.speaker)
             table == get_speaker_profile(profiles, sid)
             last_lang == table[sid].last_language
         IN  IF Confidence(token) < LANGUAGE_CONFIDENCE_THRESHOLD
                /\ ~IsNone(last_lang)
             THEN [result |-> Val(last_lang), profiles |-> table]
             ELSE IF ~IsNone(token.language)
             THEN [result |-> Val(token.language),
                   profiles |-> [table EXCEPT
                       ![sid] = add_sample(@, Val(token.language))]]
             ELSE IF ~IsNone(last_lang)
             THEN [result |-> Val(last_lang),
                   profiles |-> [table EXCEPT
                       ![sid] = add_sample(@, Val(last_lang))]]
             ELSE [result |-> DEFAULT_LANGUAGE, profiles |-> table]

\* a resolver that applies the confidence threshold to a speaker without
\* last_language too
ResolveThresholdAlways(token, profiles) ==
    IF IsNone(token.speaker)
    THEN [result |-> IF IsNone(token.language) THEN DEFAULT_LANGUAGE
                     ELSE Val(token.language),
          profiles |-> profiles]
    ELSE LET sid == Val(token.speaker)
             table == get_speaker_profile(profiles, sid)
             last_lang == table[sid].last_language
         IN  IF Confidence(token) < LANGUAGE_CONFIDENCE_THRESHOLD
             THEN [result |-> IF IsNone(last_lang) THEN DEFAULT_LANGUAGE
                              ELSE Val(last_lang),
                   profiles |-> table]
             ELSE IF ~IsNone(token.language)
             THEN [result |-> Val(token.language),
                   profiles |-> [table EXCEPT
                       ![sid] = add_sample(@, Val(token.language))]]
             ELSE IF ~IsNone(last_lang)
             THEN [result |-> Val(last_lang), profiles |-> table]
             ELSE [result |-> DEFAULT_LANGUAGE, profiles |-> table]

resolve_language(token, profiles) ==
    IF IsNone(token.speaker)
    THEN [result |-> IF IsNone(token.language) THEN DEFAULT_LANGUAGE
                     ELSE Val(token.language),
          profiles |-> profiles]
    ELSE LET sid == Val(token.speaker)
             table == get_speaker_profile(profiles, sid)
             last_lang == table[sid].last_language
         IN  IF Confidence(token) < LANGUAGE_CONFIDENCE_THRESHOLD
                /\ ~IsNone(last_lang)
             THEN [result |-> Val(last_lang), profiles |-> table]
             ELSE IF ~IsNone(token.language)
             THEN [result |-> Val(token.language),
                   profiles |-> [table EXCEPT
                       ![sid] = add_sample(@, Val(token.language))]]
             ELSE IF ~IsNone(last_lang)
             THEN [result |-> Val(last_lang), profiles |-> table]
             ELSE [result |-> DEFAULT_LANGUAGE, profiles |-> table]



-----------------------------------------------------------------------------
(* Text helpers (str methods used by ui.py and session.py) *)

NEWLINE == "\n"
IsBlank(a) == a = " " \/ a = NEWLINE

RECURSIVE lstrip(_)
lstrip(text) ==
    IF text # <<>> /\ IsBlank(Head(text)) THEN lstrip(Tail(text)) ELSE text

RECURSIVE rstrip(_)
rstrip(text) ==
    IF text # <<>> /\ IsBlank(text[Len(text)])
    THEN rstrip(SubSeq(text, 1, Len(text) - 1)) ELSE text

strip(text) == rstrip(lstrip(text))

IsEndMarker(a) == a = "<end>" \/ a = "<END>"


\* text.replace("<end>", "").replace("<END>", "")
clean_display_text(text) == SelectSeq(text, LAMBDA a : ~IsEndMarker(a))

\* truthiness of an Optional[str]: neither None nor ""
Truthy(o) == ~IsNone(o) /\ Val(o) # ""

-----------------------------------------------------------------------------
(* Styling tables of ui.py *)

\* SPEAKER_STYLES (ui.py:117-132): the emoji by name, and the colour
SPEAKER_STYLES ==
    << <<"tree", "#98fb98">>, <<"santa", "#ff6b6b">>, <<"star", "#ffd700">>,
       <<"gift", "#ff69b4">>, <<"bell", "#ffb347">>, <<"candle", "#dda0dd">>,
       <<"stocking", "#87ceeb">>, <<"cookie", "#deb887">>,
       <<"snowman", "#e0ffff">>, <<"snowflake", "#b0e0e6">>,
       <<"reindeer", "#cd853f">>, <<"grandma", "#f0e68c">>,
       <<"ribbon", "#ffb6c1">>, <<"scarf", "#20b2aa">> >>

_get_speaker_style(sid) == SPEAKER_STYLES[(sid % Len(SPEAKER_STYLES)) + 1]

DEFAULT_LANGUAGE_COLOR == "#d4af37"

\* LANGUAGE_COLORS (ui.py:39-112), the entries of the languages modelled
LANGUAGE_COLORS(language) ==
    CASE language = "en" -> "#b0b0b0"
      [] language = "de" -> "#4682b4"
      [] language = "es" -> "#ffd700"
      [] language = "fr" -> "#ff6b6b"
      [] OTHER -> DEFAULT_LANGUAGE_COLOR

_get_language_color(language, target) ==
    IF language = target THEN "white" ELSE LANGUAGE_COLORS(language)

\* languages.get_language_flag behind ui._get_language_flag: the flag by name
_get_language_flag(language) ==
    CASE language = "ca" -> "[CAT]"
      [] language = "eu" -> "[BAS]"
      [] language = "gl" -> "[GAL]"
      [] language = "en" -> "flag-us"
      [] language = "es" -> "flag-es"
      [] language = "fr" -> "flag-fr"
      [] language = "de" -> "flag-de"
      [] OTHER -> "flag-globe"

-----------------------------------------------------------------------------
(* The styled text (rich.text.Text): a sequence of spans.  Appending an     *)
(* empty string adds nothing.                                               *)

Span(text, style) == [text |-> text, style |-> style]

TextAppend(spans, text, style) ==
    IF text = <<>> THEN spans ELSE Append(spans, Span(text, style))

PARAGRAPH_BREAK == Span(<<NEWLINE, NEWLINE>>, <<>>)

-----------------------------------------------------------------------------
(* The transcript assembler: LiveTranscriptUI._render_transcript and        *)
(* _flush_buffers_with_flag (ui.py:401-529)                                 *)

IsTranslation(token) == token.translation_status = "translation"

\* token.get("is_final", True)
IsFinalForRender(token) == IF IsNone(token.is_final) THEN TRUE ELSE Val(token.is_final)

\* the skip rule: a translation whose source language is the target language
IsSkipped(token, target) ==
    IsTranslation(token) /\ token.source_language = Some(target)

FlushWithoutFlag(spans, original, translation, lang, is_final, show_flag, target) ==
    LET orig == clean_display_text(original)
        trans == clean_display_text(translation)
        lang_color == IF Truthy(lang) THEN _get_language_color(Val(lang), target)
                      ELSE DEFAULT_LANGUAGE_COLOR
    IN  IF orig = <<>> /\ trans = <<>> THEN spans
        ELSE IF is_final
        THEN LET t1 == TextAppend(spans, orig, <<lang_color>>)
             IN  IF trans # <<>>
                 THEN TextAppend(
                        TextAppend(TextAppend(t1, <<" ", "(">>, <<"dim">>),
                                   strip(trans), <<"white">>),
                        <<")">>, <<"dim">>)
                 ELSE t1
        ELSE LET t1 == TextAppend(spans, orig, <<"dim", "italic", lang_color>>)
             IN  IF trans # <<>>
                 THEN TextAppend(
                        TextAppend(TextAppend(t1, <<" ", "(">>, <<"dim">>),
                                   strip(trans), <<"dim", "italic", "white">>),
                        <<")">>, <<"dim">>)
                 ELSE t1

_flush_buffers_with_flag(spans, original, translation, lang, is_final, show_flag, target) ==
    LET orig == clean_display_text(original)
        trans == clean_display_text(translation)
        lang_color == IF Truthy(lang) THEN _get_language_color(Val(lang), target)
                      ELSE DEFAULT_LANGUAGE_COLOR
    IN  IF orig = <<>> /\ trans = <<>> THEN spans
        ELSE IF is_final
        THEN LET t1 == TextAppend(spans, orig, <<lang_color>>)
                 t2 == IF show_flag /\ Truthy(lang)
                       THEN TextAppend(t1, <<" ", _get_language_flag(Val(lang))>>,
                                       <<"dim">>)
                       ELSE t1
             IN  IF trans # <<>>
                 THEN TextAppend(
                        TextAppend(TextAppend(t2, <<" ", "(">>, <<"dim">>),
                                   strip(trans), <<"white">>),
                        <<")">>, <<"dim">>)
                 ELSE t2
        ELSE LET t1 == TextAppend(spans, orig, <<"dim", "italic", lang_color>>)
             IN  IF trans # <<>>
                 THEN TextAppend(
                        TextAppend(TextAppend(t1, <<" ", "(">>, <<"dim">>),
                                   strip(trans), <<"dim", "italic", "white">>),
                        <<")">>, <<"dim">>)
                 ELSE t1

\* the fold state before the first token (ui.py:408-414)
FoldInit(profiles) ==
    [text |-> <<>>, current_speaker |-> None, original_buffer |-> <<>>,
     translation_buffer |-> <<>>, current_lang |-> None,
     buffer_is_final |-> TRUE, should_show_flag |-> FALSE,
     profiles |-> profiles]

SpeakerChangeNoBreak(st, token, target) ==
    LET speaker == Val(token.speaker)
        flushed == IF st.original_buffer # <<>> \/ st.translation_buffer # <<>>
                   THEN _flush_buffers_with_flag(st.text, st.original_buffer,
                            st.translation_buffer, st.current_lang,
                            st.buffer_is_final, st.should_show_flag, target)
                   ELSE st.text
        table == get_speaker_profile(st.profiles, speaker)
        style == _get_speaker_style(speaker)
        header == Span(<<style[1], " ">> \o get_label(table[speaker]) \o <<":", " ">>,
                       <<"bold", style[2]>>)
    IN  [text |-> Append(flushed, header),
         current_speaker |-> Some(speaker),
         original_buffer |-> <<>>, translation_buffer |-> <<>>,
         current_lang |-> token.language,
         buffer_is_final |-> TRUE, should_show_flag |-> TRUE,
         profiles |-> table]

SpeakerChangeDominantLanguage(st, token, target) ==
    LET speaker == Val(token.speaker)
        flushed == IF st.original_buffer # <<>> \/ st.translation_buffer # <<>>
                   THEN _flush_buffers_with_flag(st.text, st.original_buffer,
                            st.translation_buffer, st.current_lang,
                            st.buffer_is_final, st.should_show_flag, target)
                   ELSE st.text
        broken == IF ~IsNone(st.current_speaker)
                  THEN Append(flushed, PARAGRAPH_BREAK) ELSE flushed
        table == get_speaker_profile(st.profiles, speaker)
        style == _get_speaker_style(speaker)
        header == Span(<<style[1], " ">> \o get_label(table[speaker]) \o <<":", " ">>,
                       <<"bold", style[2]>>)
    IN  [text |-> Append(broken, header),
         current_speaker |-> Some(speaker),
         original_buffer |-> <<>>, translation_buffer |-> <<>>,
         current_lang |-> IF IsNone(get_dominant_language(table[speaker]))
                          THEN token.language
                          ELSE get_dominant_language(table[speaker]),
         buffer_is_final |-> TRUE, should_show_flag |-> TRUE,
         profiles |-> table]

\* a speaker-change block that puts the new header in front of the text
SpeakerChangeHeaderFirst(st, token, target) ==
    LET speaker == Val(token.speaker)
        flushed == IF st.original_buffer # <<>> \/ st.translation_buffer # <<>>
                   THEN _flush_buffers_with_flag(st.text, st.original_buffer,
                            st.translation_buffer, st.current_lang,
                            st.buffer_is_final, st.should_show_flag, target)
                   ELSE st.text
        broken == IF ~IsNone(st.current_speaker)
                  THEN Append(flushed, PARAGRAPH_BREAK) ELSE flushed
        table == get_speaker_profile(st.profiles, speaker)
        style == _get_speaker_style(speaker)
        header == Span(<<style[1], " ">> \o get_label(table[speaker]) \o <<":", " ">>,
                       <<"bold", style[2]>>)
    IN  [text |-> <<header>> \o broken,
         current_speaker |-> Some(speaker),
         original_buffer |-> <<>>, translation_buffer |-> <<>>,
         current_lang |-> token.language,
         buffer_is_final |-> TRUE, should_show_flag |-> TRUE,
         profiles |-> table]

\* a speaker-change block that leaves should_show_flag as it was
SpeakerChangeKeepingFlag(st, token, target) ==
    LET speaker == Val(token.speaker)
        flushed == IF st.original_buffer # <<>> \/ st.translation_buffer # <<>>
                   THEN _flush_buffers_with_flag(st.text, st.original_buffer,
                            st.translation_buffer, st.current_lang,
                            st.buffer_is_final, st.should_show_flag, target)
                   ELSE st.text
        broken == IF ~IsNone(st.current_speaker)
                  THEN Append(flushed, PARAGRAPH_BREAK) ELSE flushed
        table == get_speaker_profile(st.profiles, speaker)
        style == _get_speaker_style(speaker)
        header == Span(<<style[1], " ">> \o get_label(table[speaker]) \o <<":", " ">>,
                       <<"bold", style[2]>>)
    IN  [text |-> Append(broken, header),
         current_speaker |-> Some(speaker),
         original_buffer |-> <<>>, translation_buffer |-> <<>>,
         current_lang |-> token.language,
         buffer_is_final |-> TRUE, should_show_flag |-> st.should_show_flag,
         profiles |-> table]

\* the speaker-change block (ui.py:431-450): the state after it
SpeakerChange(st, token, target) ==
    LET speaker == Val(token.speaker)
        flushed == IF st.original_buffer # <<>> \/ st.translation_buffer # <<>>
                   THEN _flush_buffers_with_flag(st.text, st.original_buffer,
                            st.translation_buffer, st.current_lang,
                            st.buffer_is_final, st.should_show_flag, target)
                   ELSE st.text
        broken == IF ~IsNone(st.current_speaker)
                  THEN Append(flushed, PARAGRAPH_BREAK) ELSE flushed
        table == get_speaker_profile(st.profiles, speaker)
        style == _get_speaker_style(speaker)
        header == Span(<<style[1], " ">> \o get_label(table[speaker]) \o <<":", " ">>,
                       <<"bold", style[2]>>)
    IN  [text |-> Append(broken, header),
         current_speaker |-> Some(speaker),
         original_buffer |-> <<>>, translation_buffer |-> <<>>,
         current_lang |-> token.language,
         buffer_is_final |-> TRUE, should_show_flag |-> TRUE,
         profiles |-> table]

\* an accumulation block whose language-change flush passes the language of
\* the arriving token
AccumulateLabellingNew(st, token, token_text, target) ==
    LET is_final == IsFinalForRender(token)
        s1 == IF ~is_final THEN [st EXCEPT !.buffer_is_final = FALSE] ELSE st
    IN  IF IsTranslation(token)
        THEN [s1 EXCEPT !.translation_buffer = @ \o token_text]
        ELSE LET s2 ==
                   IF Truthy(token.language) /\ Truthy(s1.current_lang)
                      /\ token.language # s1.current_lang
                   THEN [s1 EXCEPT
                          !.text = _flush_buffers_with_flag(s1.text,
                              s1.original_buffer, s1.translation_buffer,
                              token.language, s1.buffer_is_final, TRUE, target),
                          !.original_buffer = <<>>,
                          !.translation_buffer = <<>>,
                          !.buffer_is_final = is_final,
                          !.should_show_flag = TRUE]
                   ELSE IF s1.translation_buffer # <<>>
                   THEN [s1 EXCEPT
                          !.text = _flush_buffers_with_flag(s1.text,
                              s1.original_buffer, s1.translation_buffer,
                              s1.current_lang, s1.buffer_is_final,
                              s1.should_show_flag, target),
                          !.original_buffer = <<>>,
                          !.translation_buffer = <<>>,
                          !.buffer_is_final = is_final,
                          !.should_show_flag = FALSE]
                   ELSE s1
             IN  [s2 EXCEPT !.original_buffer = @ \o token_text,
                            !.current_lang = token.language]

\* the accumulation block (ui.py:452-482) for a token whose text is token_text
Accumulate(st, token, token_text, target) ==
    LET is_final == IsFinalForRender(token)
        s1 == IF ~is_final THEN [st EXCEPT !.buffer_is_final = FALSE] ELSE st
    IN  IF IsTranslation(token)
        THEN [s1 EXCEPT !.translation_buffer = @ \o token_text]
        ELSE LET s2 ==
                   IF Truthy(token.language) /\ Truthy(s1.current_lang)
                      /\ token.language # s1.current_lang
                   THEN [s1 EXCEPT
                          !.text = _flush_buffers_with_flag(s1.text,
                              s1.original_buffer, s1.translation_buffer,
                              s1.current_lang, s1.buffer_is_final, TRUE, target),
                          !.original_buffer = <<>>,
                          !.translation_buffer = <<>>,
                          !.buffer_is_final = is_final,
                          !.should_show_flag = TRUE]
                   ELSE IF s1.translation_buffer # <<>>
                   THEN [s1 EXCEPT
                          !.text = _flush_buffers_with_flag(s1.text,
                              s1.original_buffer, s1.translation_buffer,
                              s1.current_lang, s1.buffer_is_final,
                              s1.should_show_flag, target),
                          !.original_buffer = <<>>,
                          !.translation_buffer = <<>>,
                          !.buffer_is_final = is_final,
                          !.should_show_flag = FALSE]
                   ELSE s1
             IN  [s2 EXCEPT !.original_buffer = @ \o token_text,
                            !.current_lang = token.language]

StepSkippingAfterSpeakerChange(st, token, target) ==
    LET changed == ~IsNone(token.speaker) /\ token.speaker # st.current_speaker
        s1 == IF changed THEN SpeakerChange(st, token, target) ELSE st
    IN  IF IsSkipped(token, target) THEN s1
        ELSE Accumulate(s1, token,
                        IF changed THEN lstrip(token.text) ELSE token.text, target)

\* one iteration of the loop over all_tokens (ui.py:418-482)
FoldStep(st, token, target) ==
    IF IsSkipped(token, target) THEN st
    ELSE LET changed == ~IsNone(token.speaker)
                        /\ token.speaker # st.current_speaker
             s1 == IF changed THEN SpeakerChange(st, token, target) ELSE st
         IN  Accumulate(s1, token,
                        IF changed THEN lstrip(token.text) ELSE token.text, target)

\* the fold state after the first k tokens
RECURSIVE Fold(_, _, _, _)
Fold(tokens, k, target, profiles) ==
    IF k = 0 THEN FoldInit(profiles)
    ELSE Apply(Fold(tokens, k - 1, target, profiles),
               LAMBDA st : FoldStep(st, tokens[k], target))

\* the final flush (ui.py:484-489)
FinalFlush(st, target) ==
    _flush_buffers_with_flag(st.text, st.original_buffer, st.translation_buffer,
        st.current_lang, st.buffer_is_final, st.should_show_flag, target)

\* _render_transcript: the styled text, and the profile table after the call
_render_transcript(final, non_final, target, profiles) ==
    LET st == Fold(final \o non_final, Len(final) + Len(non_final), target, profiles)
    IN  [text |-> FinalFlush(st, target), profiles |-> st.profiles]



-----------------------------------------------------------------------------
(* Session.render_plain_text (session.py:246-289): the text, and the        *)
(* profile table after the call                                             *)

LanguageRepr(language) == IF IsNone(language) THEN "None" ELSE Val(language)

PlainInit(profiles) ==
    [parts |-> <<>>, current_speaker |-> None, current_language |-> None,
     current_is_translation |-> FALSE, profiles |-> profiles]

PlainStep(st, token, target) ==
    IF IsSkipped(token, target) THEN st
    ELSE LET changed == ~IsNone(token.speaker)
                        /\ token.speaker # st.current_speaker
             table == IF changed
                      THEN get_speaker_profile(st.profiles, Val(token.speaker))
                      ELSE st.profiles
             s1 == IF changed
                   THEN [parts |->
                            (IF ~IsNone(st.current_speaker)
                             THEN st.parts \o <<NEWLINE, NEWLINE>> ELSE st.parts)
                            \o get_label(table[Val(token.speaker)]) \o <<":">>,
                         current_speaker |-> token.speaker,
                         current_language |-> None,
                         current_is_translation |-> FALSE,
                         profiles |-> table]
                   ELSE st
             lang_changed == ~IsNone(token.language)
                             /\ token.language # s1.current_language
             translation_changed ==
                 IsTranslation(token) # s1.current_is_translation
         IN  IF lang_changed \/ translation_changed
             THEN [s1 EXCEPT
                    !.current_language = token.language,
                    !.current_is_translation = IsTranslation(token),
                    !.parts = @ \o
                        (IF IsTranslation(token)
                         THEN <<NEWLINE, " ", " ", "->", " ", "[",
                                LanguageRepr(token.language), "]", " ">>
                         ELSE <<NEWLINE, "[", LanguageRepr(token.language),
                                "]", " ">>)
                        \o lstrip(token.text)]
             ELSE [s1 EXCEPT !.parts = @ \o token.text]

RECURSIVE PlainFold(_, _, _, _)
PlainFold(tokens, k, target, profiles) ==
    IF k = 0 THEN PlainInit(profiles)
    ELSE Apply(PlainFold(tokens, k - 1, target, profiles),
               LAMBDA st : PlainStep(st, tokens[k], target))

render_plain_text(final, target, profiles) ==
    LET st == PlainFold(final, Len(final), target, profiles)
    IN  [text |-> strip(st.parts), profiles |-> st.profiles]

-----------------------------------------------------------------------------
(* Values of the variables an operation has not touched yet *)

NoCall == [token |-> None, result |-> None, before |-> <<>>]
NoRender == [text |-> <<>>, final |-> <<>>, non_final |-> <<>>, again |-> FALSE,
             target |-> "", done |-> FALSE]
NoPlain == [text |-> <<>>, done |-> FALSE]
NoSave == [state |-> None, loaded |-> FALSE, segment |-> None, args |-> None]

FreshUI ==
    /\ non_final_tokens = <<>>
    /\ scroll_mode = FALSE
    /\ scroll_offset = 0
    /\ scroll_lines = <<>>
    /\ scroll_total_lines = 0
    /\ error_message = ""
    /\ running = FALSE
    /\ ui_pc = "constructed"

NoCalls ==
    /\ resolved = NoCall
    /\ rendered = NoRender
    /\ plain_text = NoPlain
    /\ saved = NoSave

\* the receive thread waits for a message
IdleReceiver ==
    [pc |-> "recv", pending |-> <<>>, non_final |-> <<>>, finished |-> FALSE]

\* no thread is started and nothing went wrong
NoThreads ==
    /\ transcriber_running = FALSE
    /\ receiver = IdleReceiver
    /\ crashed = ""
    /\ delivered = <<>>

\* Session.__init__ with no state file in the session directory
FreshSession(sources, target) ==
    /\ source_languages = sources
    /\ target_language = target
    /\ speaker_profiles = <<>>
    /\ final_tokens = <<>>
    /\ segment_count = 0
    /\ audio_frames = <<>>
    /\ was_resumed = FALSE

-----------------------------------------------------------------------------
(* The resolver specification: resolve_language called on a session that    *)
(* started empty, with any speaker, language, confidence and finality       *)

ResolveSpeakers == {None, Some(1), Some(2)}
ResolveLanguages == {None, Some("es"), Some("fr")}
ResolveConfidences == {None, Some(20), Some(50), Some(90)}

ResolveTokens ==
    { Token(<<"Hola">>, sp, lang, conf, None, "original", Some(fin)) :
        sp \in ResolveSpeakers, lang \in ResolveLanguages,
        conf \in ResolveConfidences, fin \in BOOLEAN }

RECURSIVE SumOver(_, _)
SumOver(profiles, ids) ==
    IF ids = {} THEN 0
    ELSE LET s == CHOOSE x \in ids : TRUE
         IN  profiles[s].total_samples + SumOver(profiles, ids \ {s})

TotalSamples(profiles) == SumOver(profiles, DOMAIN profiles)

InitResolve ==
    /\ FreshSession(<<"es", "fr">>, "en")
    /\ state_file = None
    /\ segment_files = <<>>
    /\ FreshUI
    /\ NoCalls
    /\ NoThreads

ResolveCall(token) ==
    /\ TotalSamples(speaker_profiles) < MaxSamples
    /\ LET r == resolve_language(token, speaker_profiles)
       IN  /\ speaker_profiles' = r.profiles
           /\ resolved' = [token |-> Some(token), result |-> Some(r.result),
                           before |-> speaker_profiles]
    /\ UNCHANGED <<source_languages, target_language, final_tokens,
                   segment_count, audio_frames, was_resumed>>
    /\ UNCHANGED <<procVars, diskVars, uiVars, rendered, plain_text, saved>>

NextResolve == \E token \in ResolveTokens : ResolveCall(token)

SpecResolve == InitResolve /\ [][NextResolve]_vars

\* C1: in every profile of a session that started empty, total_samples is
\* the sum of the values of language_counts, after any resolve_language calls
C1_TotalIsSumOfCounts ==
    \A s \in DOMAIN speaker_profiles :
        speaker_profiles[s].total_samples
            = SumCounts(speaker_profiles[s].language_counts)

C1_Witness ==
    \E s \in DOMAIN speaker_profiles :
        /\ Len(speaker_profiles[s].language_counts) = 2
        /\ speaker_profiles[s].total_samples = 3

\* the profile of the speaker of the last call as it was before the call
CalledSpeaker == Val(Val(resolved.token).speaker)
ProfileBefore ==
    IF CalledSpeaker \in DOMAIN resolved.before
    THEN resolved.before[CalledSpeaker] ELSE NewProfile(CalledSpeaker)

LowConfidenceCall ==
    /\ ~IsNone(resolved.token)
    /\ ~IsNone(Val(resolved.token).speaker)
    /\ CalledSpeaker \in DOMAIN resolved.before
    /\ ~IsNone(resolved.before[CalledSpeaker].last_language)
    /\ ~IsNone(Val(resolved.token).language_confidence)
    /\ Val(Val(resolved.token).language_confidence) < LANGUAGE_CONFIDENCE_THRESHOLD

\* C2: hysteresis: a call for a speaker that has a last_language L, with a
\* confidence below 0.5, returns L and leaves the profiles as they were,
\* whatever language the token carries
C2_Hysteresis ==
    LowConfidenceCall =>
        /\ resolved.result = resolved.before[CalledSpeaker].last_language
        /\ speaker_profiles = resolved.before

C2_Witness ==
    /\ LowConfidenceCall
    /\ Val(resolved.token).language = Some("fr")
    /\ resolved.before[CalledSpeaker].last_language = Some("es")
    /\ resolved.result = Some("es")

ConfidentCall ==
    /\ ~IsNone(resolved.token)
    /\ ~IsNone(Val(resolved.token).speaker)
    /\ ~IsNone(Val(resolved.token).language)
    /\ \/ IsNone(Val(resolved.token).language_confidence)
       \/ Val(Val(resolved.token).language_confidence)
            >= LANGUAGE_CONFIDENCE_THRESHOLD

\* C3: a call with a speaker, a language M and a confidence absent or at
\* least 0.5 returns M, adds one to language_counts[M] and to total_samples
\* of that speaker, sets last_language to M, and changes no other count and
\* no other speaker's profile
C3_ConfidentSample ==
    ConfidentCall =>
        LET M == Val(Val(resolved.token).language)
            now == speaker_profiles[CalledSpeaker]
        IN  /\ resolved.result = Some(M)
            /\ DOMAIN speaker_profiles = DOMAIN resolved.before \cup {CalledSpeaker}
            /\ CountOf(now.language_counts, M)
                 = CountOf(ProfileBefore.language_counts, M) + 1
            /\ now.total_samples = ProfileBefore.total_samples + 1
            /\ now.last_language = Some(M)
            /\ now.speaker_id = ProfileBefore.speaker_id
            /\ \A L \in {"es", "fr", "en"} \ {M} :
                 CountOf(now.language_counts, L)
                   = CountOf(ProfileBefore.language_counts, L)
            /\ \A q \in DOMAIN resolved.before \ {CalledSpeaker} :
                 speaker_profiles[q] = resolved.before[q]

C3_Witness ==
    /\ ConfidentCall
    /\ Val(resolved.token).language = Some("fr")
    /\ CalledSpeaker \in DOMAIN resolved.before
    /\ resolved.before[CalledSpeaker].last_language = Some("es")
    /\ Cardinality(DOMAIN resolved.before) = 2
    /\ resolved.result = Some("fr")

-----------------------------------------------------------------------------
(* The receive loop's handling of one token (transcription.py:202-212):     *)
(* the token tagged with its resolved language, and the profiles after      *)

IngestToken(token, profiles) ==
    LET r == resolve_language(token, profiles)
    IN  [token |-> [token EXCEPT !.resolved_language = Some(r.result)],
         profiles |-> r.profiles]

\* the tokens of a list after the loop has resolved them in order, and the
\* profile table after the last of them
RECURSIVE IngestAll(_, _)
IngestAll(tokens, profiles) ==
    IF tokens = <<>> THEN [tokens |-> <<>>, profiles |-> profiles]
    ELSE Apply(IngestToken(Head(tokens), profiles), LAMBDA first :
             Apply(IngestAll(Tail(tokens), first.profiles), LAMBDA rest :
                 [tokens |-> <<first.token>> \o rest.tokens,
                  profiles |-> rest.profiles]))

-----------------------------------------------------------------------------
(* The assembler specification: a session that has ingested a bounded list  *)
(* of finalized tokens and holds a non-final snapshot; the renderers run on *)
(* it, and the snapshot is delivered again between renders                  *)

\* finalized tokens in the session, and tokens in the non-final snapshot
MaxFinal == 2
MaxNonFinal == 1

BoundedSeq(S, n) == UNION { [1..k -> S] : k \in 0..n }

OriginalFr(sp, final) ==
    Token(<<"Bonjour">>, sp, Some("fr"), None, None, "original", Some(final))
OriginalEn(sp, final) ==
    Token(<<" ", "Hi", "<end>">>, sp, Some("en"), None, None, "original", Some(final))
TranslationFr(sp, final) ==
    Token(<<" ", "Hello">>, sp, Some("en"), None, Some("fr"), "translation", Some(final))
TranslationEn(sp, final) ==
    Token(<<" ", "Hi">>, sp, Some("en"), None, Some("en"), "translation", Some(final))

RenderFinalTokens ==
    { OriginalFr(sp, TRUE) : sp \in {None, Some(1), Some(2)} }
    \cup { TranslationFr(sp, TRUE) : sp \in {None, Some(1), Some(2)} }
    \cup { TranslationEn(sp, TRUE) : sp \in {Some(1), Some(2)} }
    \cup { OriginalEn(Some(1), TRUE) }

RenderNonFinalTokens ==
    { OriginalFr(sp, FALSE) : sp \in {Some(1), Some(2)} }
    \cup { TranslationFr(Some(1), FALSE), TranslationEn(Some(2), FALSE) }

InitRender ==
    /\ source_languages = <<"fr">>
    /\ target_language = "en"
    /\ \E f \in BoundedSeq(RenderFinalTokens, MaxFinal),
          n \in BoundedSeq(RenderNonFinalTokens, MaxNonFinal) :
          LET fin == IngestAll(f, <<>>)
              non == IngestAll(n, fin.profiles)
          IN  /\ final_tokens = fin.tokens
              /\ non_final_tokens = non.tokens
              /\ speaker_profiles = non.profiles
    /\ segment_count = 0
    /\ audio_frames = <<>>
    /\ was_resumed = FALSE
    /\ state_file = None
    /\ segment_files = <<>>
    /\ scroll_mode = FALSE
    /\ scroll_offset = 0
    /\ scroll_lines = <<>>
    /\ scroll_total_lines = 0
    /\ error_message = ""
    /\ running = FALSE
    /\ ui_pc = "constructed"
    /\ NoCalls
    /\ NoThreads

\* a call of _render_transcript (by _render_live_transcript on a redraw)
RenderTranscript ==
    /\ LET r == _render_transcript(final_tokens, non_final_tokens,
                                   target_language, speaker_profiles)
       IN  /\ rendered' = [text |-> r.text, final |-> final_tokens,
                           non_final |-> non_final_tokens,
                           target |-> target_language, done |-> TRUE,
                           again |-> rendered.done
                                     /\ rendered.final = final_tokens
                                     /\ rendered.non_final = non_final_tokens
                                     /\ rendered.target = target_language]
           /\ speaker_profiles' = r.profiles
    /\ UNCHANGED <<source_languages, target_language, final_tokens,
                   segment_count, audio_frames, was_resumed>>
    /\ UNCHANGED <<procVars, diskVars, uiVars, resolved, plain_text, saved>>

\* a call of Session.render_plain_text
RenderPlainText ==
    /\ LET r == render_plain_text(final_tokens, target_language, speaker_profiles)
       IN  /\ plain_text' = [text |-> r.text, done |-> TRUE]
           /\ speaker_profiles' = r.profiles
    /\ UNCHANGED <<source_languages, target_language, final_tokens,
                   segment_count, audio_frames, was_resumed>>
    /\ UNCHANGED <<procVars, diskVars, uiVars, resolved, rendered, saved>>

\* the receive loop on a message that carries the same non-final tokens
\* again and no finalized one (transcription.py:198-216): every token is
\* resolved again and _on_tokens stores the snapshot
RedeliverSnapshot ==
    /\ non_final_tokens # <<>>
    /\ TotalSamples(speaker_profiles) <= MaxSamples
    /\ LET r == IngestAll(non_final_tokens, speaker_profiles)
       IN  /\ non_final_tokens' = r.tokens
           /\ speaker_profiles' = r.profiles
    /\ UNCHANGED <<source_languages, target_language, final_tokens,
                   segment_count, audio_frames, was_resumed>>
    /\ UNCHANGED <<procVars, diskVars, displayVars, callVars>>

NextRender == RenderTranscript \/ RenderPlainText \/ RedeliverSnapshot

SpecRender == InitRender /\ [][NextRender]_vars

RenderedTokens == rendered.final \o rendered.non_final

Unskipped(tokens, target) ==
    SelectSeq(tokens, LAMBDA t : ~IsSkipped(t, target))

\* C4: skip rule: the rendered output of a token sequence is the rendered
\* output of the sequence with every translation token whose source_language
\* is the target language removed, for the assembler and for the plain text
C4_SkippedTokensHaveNoEffect ==
    /\ rendered.done =>
         rendered.text =
           _render_transcript(Unskipped(rendered.final, rendered.target),
                              Unskipped(rendered.non_final, rendered.target),
                              rendered.target, <<>>).text
    /\ plain_text.done =>
         plain_text.text =
           render_plain_text(Unskipped(final_tokens, target_language),
                             target_language, <<>>).text

C4_Witness ==
    /\ rendered.done
    /\ plain_text.done
    /\ Len(rendered.final) = 2
    /\ ~IsSkipped(rendered.final[1], rendered.target)
    /\ IsSkipped(rendered.final[2], rendered.target)
    /\ rendered.final[2].speaker # rendered.final[1].speaker
    /\ rendered.text # <<>>

\* C5: folding the same final_tokens, non-final snapshot and target language
\* again, with other operations in between, yields the same styled text
C5_SameInputsSameOutput ==
    [][ ( /\ rendered.done
          /\ rendered'.done
          /\ rendered'.final = rendered.final
          /\ rendered'.non_final = rendered.non_final
          /\ rendered'.target = rendered.target )
        => rendered'.text = rendered.text ]_vars

C5_Witness ==
    /\ rendered.done
    /\ rendered.again
    /\ plain_text.done
    /\ TotalSamples(speaker_profiles)
         > Len(final_tokens) + Len(non_final_tokens)
    /\ Len(rendered.text) >= 3

\* the text of a sequence of spans
RECURSIVE PlainOf(_)
PlainOf(spans) ==
    IF spans = <<>> THEN <<>> ELSE Head(spans).text \o PlainOf(Tail(spans))

IsPrefix(a, b) == Len(a) <= Len(b) /\ SubSeq(b, 1, Len(a)) = a

\* the header "<emoji> Speaker <id>: " the claims expect for a speaker
ExpectedHeader(speaker) ==
    Span(<<SPEAKER_STYLES[(speaker % 14) + 1][1], " ", "Speaker", " ">>
            \o IntToStr(speaker) \o <<":", " ">>,
         <<"bold", SPEAKER_STYLES[(speaker % 14) + 1][2]>>)

\* the run a single token makes when it opens a speaker's paragraph
RunOfOne(token, target) ==
    IF IsTranslation(token)
    THEN _flush_buffers_with_flag(<<>>, <<>>, lstrip(token.text), token.language,
                                  IsFinalForRender(token), TRUE, target)
    ELSE _flush_buffers_with_flag(<<>>, lstrip(token.text), <<>>, token.language,
                                  IsFinalForRender(token), TRUE, target)

ChangesSpeaker(all, k, target) ==
    /\ ~IsSkipped(all[k], target)
    /\ ~IsNone(all[k].speaker)
    /\ all[k].speaker # Fold(all, k - 1, target, <<>>).current_speaker

TwoSpeakers(all, target) ==
    /\ Len(all) = 2
    /\ \A k \in 1..2 :
         /\ ~IsSkipped(all[k], target)
         /\ ~IsNone(all[k].speaker)
         /\ all[k].is_final = Some(TRUE)
         /\ strip(clean_display_text(all[k].text)) # <<>>
    /\ all[1].speaker # all[2].speaker

\* C6: a non-skipped token whose speaker id differs from the current speaker
\* flushes the pending buffers as a run, then emits a paragraph break (not
\* before the first speaker), then the header "Speaker {id}" of the new
\* speaker, and only then buffers the token's text; two finalized tokens of
\* different speakers render as header, run, break, header, run
C6_SpeakerChangeBoundary ==
    rendered.done =>
      LET all == RenderedTokens
          target == rendered.target
      IN  /\ \A k \in 1..Len(all) :
               ChangesSpeaker(all, k, target) =>
                 LET pre == Fold(all, k - 1, target, <<>>)
                     post == Fold(all, k, target, <<>>)
                 IN  /\ post.text =
                          FinalFlush(pre, target)
                          \o (IF IsNone(pre.current_speaker) THEN <<>>
                              ELSE <<PARAGRAPH_BREAK>>)
                          \o <<ExpectedHeader(Val(all[k].speaker))>>
                     /\ post.original_buffer \o post.translation_buffer
                          = lstrip(all[k].text)
                     /\ post.current_speaker = all[k].speaker
                     /\ IsPrefix(post.text, rendered.text)
          /\ TwoSpeakers(all, target) =>
               /\ RunOfOne(all[1], target) # <<>>
               /\ RunOfOne(all[2], target) # <<>>
               /\ rendered.text =
                    <<ExpectedHeader(Val(all[1].speaker))>>
                    \o RunOfOne(all[1], target)
                    \o <<PARAGRAPH_BREAK, ExpectedHeader(Val(all[2].speaker))>>
                    \o RunOfOne(all[2], target)

C6_Witness ==
    /\ rendered.done
    /\ TwoSpeakers(RenderedTokens, rendered.target)
    /\ RenderedTokens[1].speaker = Some(1)
    /\ RenderedTokens[2].speaker = Some(2)
    /\ \E i \in 1..Len(rendered.text) : rendered.text[i] = PARAGRAPH_BREAK
    /\ rendered.text[1].text = <<"santa", " ", "Speaker", " ", "1", ":", " ">>

\* an original-role token followed by a translation-role token of the same
\* speaker, as the whole input, both with text to show
PairInput(all, target) ==
    /\ Len(all) = 2
    /\ ~IsTranslation(all[1])
    /\ IsTranslation(all[2])
    /\ ~IsSkipped(all[2], target)
    /\ all[1].speaker = all[2].speaker
    /\ clean_display_text(lstrip(all[1].text)) # <<>>
    /\ strip(clean_display_text(all[2].text)) # <<>>

\* the spans after the speaker header
RunSpans(all) ==
    IF IsNone(all[1].speaker) THEN rendered.text ELSE Tail(rendered.text)

OriginalShown(all) ==
    clean_display_text(IF IsNone(all[1].speaker) THEN all[1].text
                       ELSE lstrip(all[1].text))

\* C7 as stated: the run's text is the original immediately followed by the
\* parenthesized translation, "Bonjour (Hello)"
C7_OriginalThenParenthesis ==
    (rendered.done /\ PairInput(RenderedTokens, rendered.target)) =>
        PlainOf(RunSpans(RenderedTokens)) =
            OriginalShown(RenderedTokens) \o <<" ", "(">>
            \o strip(clean_display_text(RenderedTokens[2].text)) \o <<")">>

MarkerDue(all) ==
    /\ ~IsNone(all[1].speaker)
    /\ Truthy(all[1].language)
    /\ IsFinalForRender(all[1])
    /\ IsFinalForRender(all[2])

\* C7 amended: the pair renders as one run: the original, then the language
\* marker when the run is finalized, opens a speaker's paragraph and has a
\* known language, then the parenthesized translation; and a translation
\* token of the current speaker never flushes what is buffered
C7_PairIsOneRun ==
    rendered.done =>
      LET all == RenderedTokens
          target == rendered.target
      IN  /\ PairInput(all, target) =>
               /\ Len(RunSpans(all)) = IF MarkerDue(all) THEN 5 ELSE 4
               /\ RunSpans(all)[1].text = OriginalShown(all)
               /\ PlainOf(RunSpans(all)) =
                    OriginalShown(all)
                    \o (IF MarkerDue(all)
                        THEN <<" ", _get_language_flag(Val(all[1].language))>>
                        ELSE <<>>)
                    \o <<" ", "(">>
                    \o strip(clean_display_text(all[2].text)) \o <<")">>
          /\ \A k \in 1..Len(all) :
               ( /\ IsTranslation(all[k])
                 /\ ~IsSkipped(all[k], target)
                 /\ ~ChangesSpeaker(all, k, target) ) =>
                   /\ Fold(all, k, target, <<>>).text
                        = Fold(all, k - 1, target, <<>>).text
                   /\ Fold(all, k, target, <<>>).original_buffer
                        = Fold(all, k - 1, target, <<>>).original_buffer
                   /\ Fold(all, k, target, <<>>).translation_buffer
                        = Fold(all, k - 1, target, <<>>).translation_buffer
                          \o all[k].text

C7_Witness ==
    /\ rendered.done
    /\ PairInput(RenderedTokens, rendered.target)
    /\ MarkerDue(RenderedTokens)
    /\ PlainOf(RunSpans(RenderedTokens)) =
         <<"Bonjour", " ", "flag-fr", " ", "(", "Hello", ")">>

-----------------------------------------------------------------------------
(* Persistence (session.py:50-65, 101-152).  The state file holds a JSON    *)
(* object; a key the loader reads with a default is an Optional here; the   *)
(* keys of the speaker_profiles object are the decimal strings json.dump    *)
(* makes of the integer ids.                                                *)

DigitValue(d) == (CHOOSE i \in 1..10 : Digits[i] = d) - 1

\* int(sid) of a decimal string
RECURSIVE StrToInt(_)
StrToInt(str) ==
    IF Len(str) = 1 THEN DigitValue(str[1])
    ELSE 10 * StrToInt(SubSeq(str, 1, Len(str) - 1)) + DigitValue(str[Len(str)])

\* SpeakerProfile.to_dict
to_dict(profile) ==
    [language_counts |-> Some(profile.language_counts),
     last_language |-> profile.last_language,
     total_samples |-> Some(profile.total_samples)]

FromDictWithoutLastLanguage(speaker_id, data) ==
    [speaker_id |-> speaker_id,
     language_counts |-> IF IsNone(data.language_counts) THEN <<>>
                         ELSE Val(data.language_counts),
     last_language |-> None,
     total_samples |-> IF IsNone(data.total_samples) THEN 0
                       ELSE Val(data.total_samples)]

\* SpeakerProfile.from_dict
from_dict(speaker_id, data) ==
    [speaker_id |-> speaker_id,
     language_counts |-> IF IsNone(data.language_counts) THEN <<>>
                         ELSE Val(data.language_counts),
     last_language |-> data.last_language,
     total_samples |-> IF IsNone(data.total_samples) THEN 0
                       ELSE Val(data.total_samples)]

\* a state document whose segment_count is the one before the save
StateDocumentOneBehind(sources, target, count, tokens, profiles) ==
    [source_languages |-> Some(sources),
     target_language |-> Some(target),
     segment_count |-> Some(Max(count - 1, 0)),
     tokens |-> Some(tokens),
     speaker_profiles |->
        Some([key \in { IntToStr(sid) : sid \in DOMAIN profiles } |->
                to_dict(profiles[StrToInt(key)])])]

\* the document save_state writes (session.py:138-149)
StateDocument(sources, target, count, tokens, profiles) ==
    [source_languages |-> Some(sources),
     target_language |-> Some(target),
     segment_count |-> Some(count),
     tokens |-> Some(tokens),
     speaker_profiles |->
        Some([key \in { IntToStr(sid) : sid \in DOMAIN profiles } |->
                to_dict(profiles[StrToInt(key)])])]

\* the session fields after Session.__init__ found no state file
EmptySession(sources, target) ==
    [source_languages |-> sources, target_language |-> target,
     speaker_profiles |-> <<>>, final_tokens |-> <<>>, segment_count |-> 0,
     was_resumed |-> FALSE]

\* the profile table the loop of session.py:117-120 builds from the object
LoadProfiles(object) ==
    [sid \in { StrToInt(key) : key \in DOMAIN object } |->
        from_dict(sid, object[IntToStr(sid)])]

\* the session fields after Session.__init__ loaded a well-formed document
\* (session.py:103-122)
_load_state(doc, sources, target) ==
    LET configured == ~IsNone(doc.source_languages) /\ ~IsNone(doc.target_language)
    IN  [source_languages |-> IF configured THEN Val(doc.source_languages)
                              ELSE sources,
         target_language |-> IF configured THEN Val(doc.target_language)
                             ELSE target,
         speaker_profiles |-> IF IsNone(doc.speaker_profiles) THEN <<>>
                              ELSE LoadProfiles(Val(doc.speaker_profiles)),
         final_tokens |-> IF IsNone(doc.tokens) THEN <<>> ELSE Val(doc.tokens),
         segment_count |-> IF IsNone(doc.segment_count) THEN 0
                           ELSE Val(doc.segment_count),
         was_resumed |-> TRUE]

\* Session.__init__ (session.py:71-94) on a directory whose state file is file
NewSession(file, sources, target) ==
    IF IsNone(file) THEN EmptySession(sources, target)
    ELSE _load_state(Val(file), sources, target)

-----------------------------------------------------------------------------
(* Segment save (session.py:181-244) *)

\* b"".join(self.audio_frames)
RECURSIVE JoinFrames(_)
JoinFrames(frames) ==
    IF frames = <<>> THEN <<>> ELSE Head(frames) \o JoinFrames(Tail(frames))

TranscodeOutcomes == {"ok", "nonzero", "timeout", "missing"}

SaveAudioRemovingWav(frames, outcome) ==
    [wav |-> None,
     mp3 |-> IF outcome = "ok" THEN Some(<<"mp3">> \o JoinFrames(frames)) ELSE None]

\* _save_audio: the audio files of the segment after the call; outcome is
\* what running ffmpeg on the WAV file did
_save_audio(frames, outcome) ==
    IF outcome = "ok"
    THEN [wav |-> None, mp3 |-> Some(<<"mp3">> \o JoinFrames(frames))]
    ELSE [wav |-> Some(JoinFrames(frames)), mp3 |-> None]

\* the files save_segment leaves for one segment
SegmentFiles(tokens, labels, text, frames, outcome) ==
    [json |-> [tokens |-> tokens, speaker_profiles |-> labels],
     txt |-> text,
     audio |-> IF frames # <<>> THEN _save_audio(frames, outcome)
               ELSE [wav |-> None, mp3 |-> None]]

PutFile(files, number, content) ==
    [n \in DOMAIN files \cup {number} |->
        IF n = number THEN content ELSE files[n]]

-----------------------------------------------------------------------------
(* Operations on the session *)

HasText(token) == token.text # <<>>
IsFinalForIngest(token) == token.is_final = Some(TRUE)

ReceiveMessageKeepingLastBatch(tokens) ==
    LET r == IngestAll(SelectSeq(tokens, HasText), speaker_profiles)
    IN  /\ speaker_profiles' = r.profiles
        /\ final_tokens' = SelectSeq(r.tokens, IsFinalForIngest)
        /\ non_final_tokens' =
             SelectSeq(r.tokens, LAMBDA t : ~IsFinalForIngest(t))

\* Transcriber._receive_messages on one message that carries tokens
\* (transcription.py:198-216): every token with text is resolved and tagged,
\* the final ones are added to the session, and _on_tokens stores the others
ReceiveMessage(tokens) ==
    LET r == IngestAll(SelectSeq(tokens, HasText), speaker_profiles)
    IN  /\ speaker_profiles' = r.profiles
        /\ final_tokens' = final_tokens \o SelectSeq(r.tokens, IsFinalForIngest)
        /\ non_final_tokens' =
             SelectSeq(r.tokens, LAMBDA t : ~IsFinalForIngest(t))

\* what of the session a state document is compared with
Memory ==
    [source_languages |-> source_languages,
     target_language |-> target_language,
     speaker_profiles |-> speaker_profiles,
     final_tokens |-> final_tokens,
     segment_count |-> segment_count]

\* Session.save_state
SaveState ==
    /\ state_file' = Some(StateDocument(source_languages, target_language,
                              segment_count, final_tokens, speaker_profiles))
    /\ saved' = [saved EXCEPT !.state = Some(Memory), !.loaded = FALSE]
    /\ UNCHANGED <<procVars, sessionVars, segment_files, uiVars, resolved, rendered,
                   plain_text>>

\* the speaker_profiles object of the segment record (session.py:195-201)
SegmentLabels(profiles) ==
    [sid \in DOMAIN profiles |->
        [label |-> get_label(profiles[sid]),
         language_counts |-> profiles[sid].language_counts]]

\* Session.save_segment, the transcode ending in outcome
save_segment(outcome) ==
    LET number == segment_count + 1
        plain == render_plain_text(final_tokens, target_language, speaker_profiles)
    IN  /\ segment_count' = number
        /\ speaker_profiles' = plain.profiles
        /\ plain_text' = [text |-> plain.text, done |-> TRUE]
        /\ segment_files' = PutFile(segment_files, number,
               SegmentFiles(final_tokens, SegmentLabels(speaker_profiles),
                            plain.text, audio_frames, outcome))
        /\ state_file' = Some(StateDocument(source_languages, target_language,
                                  number, final_tokens, plain.profiles))
        /\ saved' = [state |-> Some([Memory EXCEPT
                                        !.segment_count = number,
                                        !.speaker_profiles = plain.profiles]),
                     loaded |-> FALSE,
                     segment |-> Some([number |-> number,
                                       frames |-> audio_frames,
                                       outcome |-> outcome]),
                     args |-> saved.args]
        /\ UNCHANGED <<source_languages, target_language, final_tokens,
                       audio_frames, was_resumed, resolved, rendered>>

\* a call of save_segment that is not the one of the UI's shutdown
SaveSegment(outcome) ==
    save_segment(outcome) /\ UNCHANGED <<uiVars, procVars>>

\* Session.add_audio_frame
AddAudioFrame(frame) ==
    /\ audio_frames' = Append(audio_frames, frame)
    /\ UNCHANGED <<source_languages, target_language, speaker_profiles,
                   final_tokens, segment_count, was_resumed>>
    /\ UNCHANGED <<procVars, diskVars, uiVars, callVars>>

\* the program is started again on the same session name and directory:
\* Session.__init__ with the languages of the new command line, and a new UI
Restart(sources, target) ==
    LET session == NewSession(state_file, sources, target)
    IN  /\ source_languages' = session.source_languages
        /\ target_language' = session.target_language
        /\ speaker_profiles' = session.speaker_profiles
        /\ final_tokens' = session.final_tokens
        /\ segment_count' = session.segment_count
        /\ was_resumed' = session.was_resumed
        /\ audio_frames' = <<>>
        /\ non_final_tokens' = <<>>
        /\ scroll_mode' = FALSE
        /\ scroll_offset' = 0
        /\ scroll_lines' = <<>>
        /\ scroll_total_lines' = 0
        /\ error_message' = ""
        /\ running' = FALSE
        /\ ui_pc' = "constructed"
        /\ saved' = [saved EXCEPT !.loaded = ~IsNone(state_file)]
        /\ transcriber_running' = FALSE
        /\ receiver' = IdleReceiver
        /\ crashed' = ""
        /\ UNCHANGED <<diskVars, resolved, rendered, plain_text, delivered>>

-----------------------------------------------------------------------------
(* The persistence specification: tokens are ingested, the state is saved   *)
(* and the program is started again, with any languages                     *)

PersistTokens ==
    { Token(<<"Hola">>, Some(1), Some("es"), None, None, "original", Some(TRUE)),
      Token(<<"Salut">>, Some(12), Some("fr"), None, None, "original", Some(TRUE)),
      Token(<<"Hola">>, Some(12), Some("es"), None, None, "original", Some(FALSE)) }

LanguageChoices == { [sources |-> <<"es", "fr">>, target |-> "en"],
                     [sources |-> <<"en">>, target |-> "fr"] }

InitPersist ==
    /\ \E choice \in LanguageChoices :
         FreshSession(choice.sources, choice.target)
    /\ state_file = None
    /\ segment_files = <<>>
    /\ FreshUI
    /\ NoCalls
    /\ NoThreads

PersistReceive(token) ==
    /\ Len(final_tokens) < MaxFinal
    /\ TotalSamples(speaker_profiles) < MaxSamples
    /\ ReceiveMessage(<<token>>)
    /\ saved' = [saved EXCEPT !.loaded = FALSE]
    /\ UNCHANGED <<source_languages, target_language, segment_count,
                   audio_frames, was_resumed, diskVars, displayVars, procVars,
                   resolved, rendered, plain_text>>

NextPersist ==
    \/ \E token \in PersistTokens : PersistReceive(token)
    \/ SaveState
    \/ \E choice \in LanguageChoices : Restart(choice.sources, choice.target)

SpecPersist == InitPersist /\ [][NextPersist]_vars

-----------------------------------------------------------------------------
(* The segment specification: audio frames are buffered, a finalized token  *)
(* is ingested, and segments are saved with every outcome of the transcode  *)

\* segments saved, and audio frames buffered, in one run of the model
MaxSegments == 2
MaxFrames == 2

AudioFrames == { <<1>>, <<2, 3>> }

SegmentToken ==
    Token(<<"Hola">>, Some(1), Some("es"), None, None, "original", Some(TRUE))

InitSegment ==
    /\ FreshSession(<<"es", "fr">>, "en")
    /\ state_file = None
    /\ segment_files = <<>>
    /\ FreshUI
    /\ NoCalls
    /\ NoThreads

SegmentReceive ==
    /\ Len(final_tokens) < MaxFinal
    /\ ReceiveMessage(<<SegmentToken>>)
    /\ UNCHANGED <<source_languages, target_language, segment_count,
                   audio_frames, was_resumed, diskVars, displayVars, procVars,
                   callVars>>

NextSegment ==
    \/ SegmentReceive
    \/ \E outcome \in TranscodeOutcomes :
         segment_count < MaxSegments /\ SaveSegment(outcome)
    \/ \E frame \in AudioFrames :
         Len(audio_frames) < MaxFrames /\ AddAudioFrame(frame)

SpecSegment == InitSegment /\ [][NextSegment]_vars

-----------------------------------------------------------------------------
(* The scroll view and the main loop of the UI (ui.py:26, 170-292, 634-692) *)

SCROLL_PAGE_SIZE == 20

\* str.lower() on the characters the model types
Lower(ch) ==
    CASE ch = "G" -> "g"
      [] ch = "V" -> "v"
      [] ch = "Q" -> "q"
      [] OTHER -> ch

\* the keys a terminal sends as an escape sequence, by the name _read_key
\* gives them
EscapeKeys == {"UP", "DOWN", "PAGEUP", "PAGEDOWN", "ESC"}

\* _read_key: the key queued for what the terminal sent
_read_key(input) == IF input \in EscapeKeys THEN input ELSE Lower(input)

\* the characters of a Text, each with the style of its span
RECURSIVE Cells(_)
Cells(spans) ==
    IF spans = <<>> THEN <<>>
    ELSE LET span == Head(spans)
         IN  [i \in 1..Len(span.text) |->
                 [char |-> span.text[i], style |-> span.style]]
             \o Cells(Tail(spans))

\* the lines of cells from position start on, the separators left out
RECURSIVE LinesFrom(_, _)
LinesFrom(cells, start) ==
    LET breaks == { i \in start..Len(cells) : cells[i].char = NEWLINE }
    IN  IF breaks = {} THEN <<SubSeq(cells, start, Len(cells))>>
        ELSE Apply(CHOOSE i \in breaks : \A j \in breaks : i <= j, LAMBDA k :
                 <<SubSeq(cells, start, k - 1)>> \o LinesFrom(cells, k + 1))

\* Text.split("\n"): the styled lines between the separators; the empty
\* line after a closing separator is dropped
split(text) ==
    Apply(Cells(text), LAMBDA cells :
        Apply(LinesFrom(cells, 1), LAMBDA lines :
            IF cells # <<>> /\ cells[Len(cells)].char = NEWLINE
            THEN SubSeq(lines, 1, Len(lines) - 1)
            ELSE lines))

\* the fields the key handlers and the redraw read and write
UIState ==
    [scroll_mode |-> scroll_mode, scroll_offset |-> scroll_offset,
     scroll_lines |-> scroll_lines, scroll_total_lines |-> scroll_total_lines,
     error_message |-> error_message, running |-> running,
     speaker_profiles |-> speaker_profiles]

_prepare_scroll_content(ui) ==
    Apply(_render_transcript(final_tokens, non_final_tokens, target_language,
                             ui.speaker_profiles), LAMBDA full_text :
        Apply(split(full_text.text), LAMBDA lines :
            [ui EXCEPT !.scroll_lines = lines,
                       !.scroll_total_lines = Len(lines),
                       !.speaker_profiles = full_text.profiles]))

\* an entry into scroll mode that does not look at final_tokens
EnterScrollModeAlways(ui) ==
    Apply(_prepare_scroll_content([ui EXCEPT !.scroll_mode = TRUE]),
          LAMBDA prepared :
              [prepared EXCEPT !.scroll_offset =
                  Max(0, prepared.scroll_total_lines - SCROLL_PAGE_SIZE)])

_enter_scroll_mode(ui) ==
    IF final_tokens = <<>>
    THEN [ui EXCEPT !.error_message = "No transcript yet"]
    ELSE Apply(_prepare_scroll_content([ui EXCEPT !.scroll_mode = TRUE]),
               LAMBDA prepared :
                   [prepared EXCEPT !.scroll_offset =
                       Max(0, prepared.scroll_total_lines - SCROLL_PAGE_SIZE)])

_exit_scroll_mode(ui) == [ui EXCEPT !.scroll_mode = FALSE]

_scroll_up(ui, n) == [ui EXCEPT !.scroll_offset = Max(0, ui.scroll_offset - n)]

_scroll_down(ui, n) ==
    LET max_off == Max(0, ui.scroll_total_lines - SCROLL_PAGE_SIZE)
    IN  [ui EXCEPT !.scroll_offset = Min(max_off, ui.scroll_offset + n)]

_scroll_to_top(ui) == [ui EXCEPT !.scroll_offset = 0]

_scroll_to_bottom(ui) ==
    [ui EXCEPT !.scroll_offset =
         Max(0, ui.scroll_total_lines - SCROLL_PAGE_SIZE)]

_handle_live_key(ui, key) ==
    IF key = "v" THEN _enter_scroll_mode(ui)
    ELSE IF key = "q" THEN [ui EXCEPT !.running = FALSE]
    ELSE ui

_handle_scroll_key(ui, key) ==
    IF key \in {"q", "ESC", "v"} THEN _exit_scroll_mode(ui)
    ELSE IF key \in {"j", "DOWN"} THEN _scroll_down(ui, 1)
    ELSE IF key \in {"k", "UP"} THEN _scroll_up(ui, 1)
    ELSE IF key \in {"d", "PAGEDOWN"} THEN _scroll_down(ui, SCROLL_PAGE_SIZE - 2)
    ELSE IF key \in {"u", "PAGEUP"} THEN _scroll_up(ui, SCROLL_PAGE_SIZE - 2)
    ELSE IF key = "g" THEN _scroll_to_top(ui)
    ELSE IF key = "G" THEN _scroll_to_bottom(ui)
    ELSE ui

_handle_key(ui, key) ==
    IF ui.scroll_mode THEN _handle_scroll_key(ui, key)
    ELSE _handle_live_key(ui, key)

\* the loop of run that empties the key queue (ui.py:667-672); inputs is what
\* the terminal sent since the last turn, which _input_thread_func read with
\* _read_key and queued in order
RECURSIVE HandleKeys(_, _)
HandleKeys(ui, inputs) ==
    IF inputs = <<>> THEN ui
    ELSE Apply(_handle_key(ui, _read_key(Head(inputs))),
               LAMBDA handled : HandleKeys(handled, Tail(inputs)))

\* _build_display: the live view renders the transcript, and the status bar
\* of either view shows the error message once
_build_display(ui) ==
    LET drawn == IF ui.scroll_mode THEN ui
                 ELSE [ui EXCEPT !.speaker_profiles =
                          _render_transcript(final_tokens, non_final_tokens,
                              target_language, ui.speaker_profiles).profiles]
    IN  [drawn EXCEPT !.error_message = ""]

SetUI(ui) ==
    /\ scroll_mode' = ui.scroll_mode
    /\ scroll_offset' = ui.scroll_offset
    /\ scroll_lines' = ui.scroll_lines
    /\ scroll_total_lines' = ui.scroll_total_lines
    /\ error_message' = ui.error_message
    /\ running' = ui.running
    /\ speaker_profiles' = ui.speaker_profiles

StartOutcomes == {"started", "No microphone found", "connection refused"}

\* run up to the loop (ui.py:634-665): the transcriber starts, or reports why
\* it did not and run returns
Run(outcome) ==
    /\ ui_pc = "constructed"
    /\ IF outcome = "started"
       THEN /\ \E shown \in {_build_display([UIState EXCEPT !.running = TRUE])} :
                 SetUI(shown)
            /\ transcriber_running' = TRUE
            /\ ui_pc' = "loop"
       ELSE /\ SetUI([UIState EXCEPT !.running = TRUE,
                                     !.error_message = outcome])
            /\ transcriber_running' = FALSE
            /\ ui_pc' = "done"
    /\ UNCHANGED <<source_languages, target_language, final_tokens,
                   segment_count, audio_frames, was_resumed, diskVars,
                   non_final_tokens, receiver, crashed, callVars, delivered>>

\* one turn of the loop of run (ui.py:666-679)
Tick(inputs) ==
    /\ ui_pc = "loop"
    /\ running
    /\ transcriber_running
    /\ \E handled \in {HandleKeys(UIState, inputs)} :
       \E prepared \in {IF handled.scroll_mode
                         THEN _prepare_scroll_content(handled)
                         ELSE handled} :
       \E shown \in {_build_display(prepared)} : SetUI(shown)
    /\ UNCHANGED <<source_languages, target_language, final_tokens,
                   segment_count, audio_frames, was_resumed, diskVars,
                   non_final_tokens, ui_pc, procVars, callVars>>

\* the loop is left, because _running is clear or by a KeyboardInterrupt, and
\* the finally block stops the listener and the transcriber (ui.py:680-684)
LeaveLoop ==
    /\ ui_pc = "loop"
    /\ running' = FALSE
    /\ transcriber_running' = FALSE
    /\ ui_pc' = "stopping"
    /\ UNCHANGED <<sessionVars, diskVars, non_final_tokens, scroll_mode,
                   scroll_offset, scroll_lines, scroll_total_lines,
                   error_message, receiver, crashed, callVars, delivered>>

\* a finally block that saves a segment whatever the token list holds
ShutdownSavingAlways(outcome) ==
    /\ ui_pc = "stopping"
    /\ ui_pc' = "done"
    /\ UNCHANGED <<non_final_tokens, scroll_mode, scroll_offset, scroll_lines,
                   scroll_total_lines, error_message, running, procVars>>
    /\ save_segment(outcome)

\* the rest of the finally block (ui.py:686-692)
Shutdown(outcome) ==
    /\ ui_pc = "stopping"
    /\ ui_pc' = "done"
    /\ UNCHANGED <<non_final_tokens, scroll_mode, scroll_offset, scroll_lines,
                   scroll_total_lines, error_message, running, procVars>>
    /\ IF final_tokens # <<>> THEN save_segment(outcome)
       ELSE UNCHANGED <<sessionVars, diskVars, callVars>>

\* keys between two turns of the loop; finalized tokens in a message that
\* carries them, and such messages, in one run of the model
MaxKeys == 1
BurstLen == 5
MaxBursts == 2

TerminalInput == {"v", "q", "j", "k", "d", "u", "g", "G", "x"} \cup EscapeKeys

\* the feed of the model: two speakers take turns, one finalized token each;
\* a partial guess has no language yet
FinalOf(speaker) ==
    Token(IF speaker = 1 THEN <<"Hola">> ELSE <<"Salut">>, Some(speaker),
          Some(IF speaker = 1 THEN "es" ELSE "fr"), None, None, "original",
          Some(TRUE))

PartialOf(speaker) ==
    Token(<<"Hm">>, Some(speaker), None, None, None, "original", Some(FALSE))

\* the finalized tokens of the turns from the n-th on
FinalBurst(n) == [i \in 1..BurstLen |-> FinalOf(1 + ((n + i - 1) % 2))]

FeedBatches ==
    {<<>>}
    \cup { <<PartialOf(a)>> : a \in {1, 2} }
    \cup { <<PartialOf(a), PartialOf(3 - a)>> : a \in {1, 2} }
    \cup (IF Len(final_tokens) < MaxBursts * BurstLen
          THEN { FinalBurst(Len(final_tokens)) }
          ELSE {})

\* Transcriber._receive_messages on a message, while the UI runs
FeedReceive(batch) ==
    /\ ui_pc = "loop"
    /\ ReceiveMessage(batch)
    /\ UNCHANGED <<source_languages, target_language, segment_count,
                   audio_frames, was_resumed, diskVars, displayVars, procVars, callVars>>

Init ==
    /\ FreshSession(<<"es", "fr">>, "en")
    /\ state_file = None
    /\ segment_files = <<>>
    /\ FreshUI
    /\ NoCalls
    /\ NoThreads

Next ==
    \/ \E outcome \in StartOutcomes : Run(outcome)
    \/ \E batch \in FeedBatches : FeedReceive(batch)
    \/ \E inputs \in BoundedSeq(TerminalInput, MaxKeys) : Tick(inputs)
    \/ LeaveLoop
    \/ \E outcome \in TranscodeOutcomes : Shutdown(outcome)

Spec == Init /\ [][Next]_vars

-----------------------------------------------------------------------------
(* The receive thread step by step (transcription.py:185-225), next to the  *)
(* redraws of the UI thread.  ReceiveMessage above is the same loop run     *)
(* without a redraw in between; here every turn of the token loop is a step *)
(* of its own, so that a redraw can fall between two of them.               *)

Message(tokens, error_code, finished) ==
    [tokens |-> tokens, error_code |-> error_code, finished |-> finished]

\* self.on_error of the message's error (transcription.py:193-196), which
\* LiveTranscriptUI._on_error stores; the status text "<code> - <message>"
\* is represented by its code
ErrorText(message) == Val(message.error_code)

\* the receive thread takes a message from the socket (transcription.py:188-200)
TakeMessage(message) ==
    /\ transcriber_running
    /\ receiver.pc = "recv"
    /\ delivered' = Append(delivered, message)
    /\ IF ~IsNone(message.error_code)
       THEN /\ error_message' = ErrorText(message)
            /\ receiver' = [IdleReceiver EXCEPT !.pc = "ended"]
       ELSE /\ error_message' = error_message
            /\ receiver' = [pc |-> "tokens", pending |-> message.tokens,
                            non_final |-> <<>>, finished |-> message.finished]
    /\ UNCHANGED <<sessionVars, diskVars, non_final_tokens, scroll_mode,
                   scroll_offset, scroll_lines, scroll_total_lines, running,
                   ui_pc, transcriber_running, crashed, resolved, rendered,
                   plain_text, saved>>

\* a token loop that puts a finalized token in front of the list
ProcessTokenPrepending ==
    /\ receiver.pc = "tokens"
    /\ receiver.pending # <<>>
    /\ LET token == Head(receiver.pending)
       IN  IF HasText(token)
           THEN \E r \in {IngestToken(token, speaker_profiles)} :
                  /\ speaker_profiles' = r.profiles
                  /\ IF IsFinalForIngest(r.token)
                     THEN /\ final_tokens' = <<r.token>> \o final_tokens
                          /\ receiver' = [receiver EXCEPT !.pending = Tail(@)]
                     ELSE /\ final_tokens' = final_tokens
                          /\ receiver' = [receiver EXCEPT
                                            !.pending = Tail(@),
                                            !.non_final = Append(@, r.token)]
           ELSE /\ receiver' = [receiver EXCEPT !.pending = Tail(@)]
                /\ UNCHANGED <<speaker_profiles, final_tokens>>
    /\ UNCHANGED <<source_languages, target_language, segment_count,
                   audio_frames, was_resumed, diskVars, uiVars,
                   transcriber_running, crashed, callVars, delivered>>

\* a token loop that gives up the rest of the message at a token without text
ProcessTokenFailingBatch ==
    /\ receiver.pc = "tokens"
    /\ receiver.pending # <<>>
    /\ LET token == Head(receiver.pending)
       IN  IF HasText(token)
           THEN \E r \in {IngestToken(token, speaker_profiles)} :
                  /\ speaker_profiles' = r.profiles
                  /\ IF IsFinalForIngest(r.token)
                     THEN /\ final_tokens' = Append(final_tokens, r.token)
                          /\ receiver' = [receiver EXCEPT !.pending = Tail(@)]
                     ELSE /\ final_tokens' = final_tokens
                          /\ receiver' = [receiver EXCEPT
                                            !.pending = Tail(@),
                                            !.non_final = Append(@, r.token)]
           ELSE /\ receiver' = [receiver EXCEPT !.pending = <<>>]
                /\ UNCHANGED <<speaker_profiles, final_tokens>>
    /\ UNCHANGED <<source_languages, target_language, segment_count,
                   audio_frames, was_resumed, diskVars, uiVars,
                   transcriber_running, crashed, callVars, delivered>>

\* a token loop that stores every token with text, final or not
ProcessTokenStoringAll ==
    /\ receiver.pc = "tokens"
    /\ receiver.pending # <<>>
    /\ LET token == Head(receiver.pending)
       IN  IF HasText(token)
           THEN \E r \in {IngestToken(token, speaker_profiles)} :
                  /\ speaker_profiles' = r.profiles
                  /\ final_tokens' = Append(final_tokens, r.token)
                  /\ receiver' = [receiver EXCEPT
                                    !.pending = Tail(@),
                                    !.non_final =
                                       IF IsFinalForIngest(r.token) THEN @
                                       ELSE Append(@, r.token)]
           ELSE /\ receiver' = [receiver EXCEPT !.pending = Tail(@)]
                /\ UNCHANGED <<speaker_profiles, final_tokens>>
    /\ UNCHANGED <<source_languages, target_language, segment_count,
                   audio_frames, was_resumed, diskVars, uiVars,
                   transcriber_running, crashed, callVars, delivered>>

\* one turn of the token loop (transcription.py:202-212)
ProcessToken ==
    /\ receiver.pc = "tokens"
    /\ receiver.pending # <<>>
    /\ LET token == Head(receiver.pending)
       IN  IF HasText(token)
           THEN \E r \in {IngestToken(token, speaker_profiles)} :
                  /\ speaker_profiles' = r.profiles
                  /\ IF IsFinalForIngest(r.token)
                     THEN /\ final_tokens' = Append(final_tokens, r.token)
                          /\ receiver' = [receiver EXCEPT !.pending = Tail(@)]
                     ELSE /\ final_tokens' = final_tokens
                          /\ receiver' = [receiver EXCEPT
                                            !.pending = Tail(@),
                                            !.non_final = Append(@, r.token)]
           ELSE /\ receiver' = [receiver EXCEPT !.pending = Tail(@)]
                /\ UNCHANGED <<speaker_profiles, final_tokens>>
    /\ UNCHANGED <<source_languages, target_language, segment_count,
                   audio_frames, was_resumed, diskVars, uiVars,
                   transcriber_running, crashed, callVars, delivered>>

\* the callback after the token loop (transcription.py:215-219, ui.py:290-292)
NotifyTokens ==
    /\ receiver.pc = "tokens"
    /\ receiver.pending = <<>>
    /\ non_final_tokens' = receiver.non_final
    /\ receiver' = [IdleReceiver EXCEPT
                      !.pc = IF receiver.finished THEN "ended" ELSE "recv"]
    /\ UNCHANGED <<sessionVars, diskVars, displayVars, transcriber_running,
                   crashed, callVars, delivered>>

\* messages taken in one run of the model
MaxMessages == 2

HolaFinal ==
    Token(<<"Hola">>, Some(1), Some("es"), None, None, "original", Some(TRUE))
SalutFinal ==
    Token(<<"Salut">>, Some(2), Some("fr"), None, None, "original", Some(TRUE))
BlankFinal ==
    Token(<<>>, Some(1), Some("es"), None, None, "original", Some(TRUE))
HolPartial ==
    Token(<<"Hol">>, Some(1), Some("es"), None, None, "original", Some(FALSE))

IngestMessages ==
    { Message(tokens, None, FALSE) :
        tokens \in { <<>>, <<HolPartial>>, <<HolaFinal>>,
                     <<HolaFinal, SalutFinal, HolPartial>>,
                     <<SalutFinal, BlankFinal, HolaFinal>> } }
    \cup { Message(<<SalutFinal>>, None, TRUE),
           Message(<<HolaFinal>>, Some("503"), FALSE) }

\* the program after LiveTranscriptUI.run started the transcriber
InitIngest ==
    /\ FreshSession(<<"es", "fr">>, "en")
    /\ state_file = None
    /\ segment_files = <<>>
    /\ non_final_tokens = <<>>
    /\ scroll_mode = FALSE
    /\ scroll_offset = 0
    /\ scroll_lines = <<>>
    /\ scroll_total_lines = 0
    /\ error_message = ""
    /\ running = TRUE
    /\ ui_pc = "loop"
    /\ transcriber_running = TRUE
    /\ receiver = IdleReceiver
    /\ crashed = ""
    /\ delivered = <<>>
    /\ NoCalls

NextIngest ==
    \/ \E message \in IngestMessages :
         Len(delivered) < MaxMessages /\ TakeMessage(message)
    \/ ProcessToken
    \/ NotifyTokens
    \/ RenderTranscript

SpecIngest == InitIngest /\ [][NextIngest]_vars

\* a token as the server sent it
Untagged(token) == [token EXCEPT !.resolved_language = None]

UntaggedAll(tokens) == [i \in 1..Len(tokens) |-> Untagged(tokens[i])]

\* the tokens of the first k messages taken that the token loop was run on,
\* in the order of delivery
RECURSIVE DeliveredTokens(_)
DeliveredTokens(k) ==
    IF k = 0 THEN <<>>
    ELSE DeliveredTokens(k - 1)
         \o (IF IsNone(delivered[k].error_code) THEN delivered[k].tokens
             ELSE <<>>)

BetweenMessages == receiver.pc \in {"recv", "ended"}

\* C12 as stated: after the receive loop has processed the messages taken,
\* final_tokens holds exactly their finalized tokens, in delivery order, each
\* once
C12_EveryFinalizedToken ==
    BetweenMessages =>
        UntaggedAll(final_tokens)
            = SelectSeq(DeliveredTokens(Len(delivered)), IsFinalForIngest)

\* C12: after the receive loop has processed the messages taken, final_tokens
\* holds exactly their finalized tokens that carry text, in delivery order
\* (message order, then order inside the message), each once
C12_DeliveryOrder ==
    BetweenMessages =>
        UntaggedAll(final_tokens)
            = SelectSeq(DeliveredTokens(Len(delivered)),
                        LAMBDA t : IsFinalForIngest(t) /\ HasText(t))

C12_Witness ==
    /\ BetweenMessages
    /\ Len(delivered) = 2
    /\ delivered[1].tokens = <<SalutFinal, BlankFinal, HolaFinal>>
    /\ delivered[2].tokens = <<HolaFinal, SalutFinal, HolPartial>>
    /\ UntaggedAll(final_tokens)
         = <<SalutFinal, HolaFinal, HolaFinal, SalutFinal>>

-----------------------------------------------------------------------------
(* Session.__init__ on any content of the state file (session.py:71-124).   *)
(* A content is text json.load rejects, a JSON value that is no object, or  *)
(* an object; the entries of its speaker_profiles object are visited in the *)
(* order of the file, which is an input of the load.                        *)

Unparsable == [unparsable |-> TRUE]
NotAnObject == [not_an_object |-> TRUE]
\* a profile entry whose value is a JSON string, number, list or null
NotADict == [not_a_dict |-> TRUE]

IsObject(content) ==
    /\ "unparsable" \notin DOMAIN content
    /\ "not_an_object" \notin DOMAIN content

\* int(sid) succeeds on a string of decimal digits and raises ValueError on
\* the other keys of LoadKeys
IsDecimal(key) ==
    /\ key # <<>>
    /\ \A i \in 1..Len(key) : \E j \in 1..10 : Digits[j] = key[i]

\* the exceptions _load_state swallows (session.py:123)
CaughtErrors == {"JSONDecodeError", "KeyError", "TypeError", "ValueError"}

\* the orders in which the entries of a JSON object can stand in the file
KeyOrders(object) ==
    { order \in [1..Cardinality(DOMAIN object) -> DOMAIN object] :
        \A i, j \in DOMAIN order : order[i] = order[j] => i = j }

\* the loop of session.py:117-120 from the entry order[1] on: the table it
\* built and the exception that ended it, "" when it ran to its end
RECURSIVE LoadEntries(_, _, _)
LoadEntries(object, order, profiles) ==
    IF order = <<>> THEN [profiles |-> profiles, raised |-> ""]
    ELSE LET key == Head(order)
         IN  IF ~IsDecimal(key)
             THEN [profiles |-> profiles, raised |-> "ValueError"]
             ELSE IF "not_a_dict" \in DOMAIN object[key]
             THEN [profiles |-> profiles, raised |-> "AttributeError"]
             ELSE LoadEntries(object, Tail(order),
                    [sid \in DOMAIN profiles \cup {StrToInt(key)} |->
                        IF sid = StrToInt(key)
                        THEN from_dict(sid, object[key])
                        ELSE profiles[sid]])

ResumedAlways(raised) == TRUE

\* self._was_resumed = True is the last statement of the try block
\* (session.py:122-124)
ResumedAfter(raised) == raised = ""

\* the session fields _load_state leaves (session.py:103-124) and the
\* exception that ended the load, "" when there was none
LoadStateFrom(content, order, sources, target) ==
    IF "unparsable" \in DOMAIN content
    THEN [session |-> [EmptySession(sources, target) EXCEPT
                         !.was_resumed = ResumedAfter("JSONDecodeError")],
          raised |-> "JSONDecodeError"]
    ELSE IF "not_an_object" \in DOMAIN content
    THEN [session |-> [EmptySession(sources, target) EXCEPT
                         !.was_resumed = ResumedAfter("AttributeError")],
          raised |-> "AttributeError"]
    ELSE LET fields == _load_state([content EXCEPT !.speaker_profiles = None],
                                   sources, target)
             entries == IF IsNone(content.speaker_profiles)
                        THEN [profiles |-> <<>>, raised |-> ""]
                        ELSE LoadEntries(Val(content.speaker_profiles), order, <<>>)
         IN  [session |-> [fields EXCEPT
                             !.speaker_profiles = entries.profiles,
                             !.was_resumed = ResumedAfter(entries.raised)],
              raised |-> entries.raised]

\* Session.get_resume_info (session.py:126-134)
get_resume_info ==
    IF ~was_resumed THEN None
    ELSE Some([segment_count |-> segment_count,
               token_count |-> Len(final_tokens),
               speaker_count |-> Cardinality(DOMAIN speaker_profiles)])

\* Session(...) in main.py:144-149.  An exception _load_state does not
\* swallow leaves the constructor and no session exists.
ConstructSession(sources, target) ==
    /\ ui_pc = "start"
    /\ crashed = ""
    /\ \E order \in IF IsNone(state_file) \/ ~IsObject(Val(state_file))
                      \/ IsNone(Val(state_file).speaker_profiles)
                   THEN {<<>>}
                   ELSE KeyOrders(Val(Val(state_file).speaker_profiles)) :
       \E r \in { IF IsNone(state_file)
                  THEN [session |-> EmptySession(sources, target), raised |-> ""]
                  ELSE LoadStateFrom(Val(state_file), order, sources, target) } :
         IF r.raised = "" \/ r.raised \in CaughtErrors
         THEN /\ source_languages' = r.session.source_languages
              /\ target_language' = r.session.target_language
              /\ speaker_profiles' = r.session.speaker_profiles
              /\ final_tokens' = r.session.final_tokens
              /\ segment_count' = r.session.segment_count
              /\ was_resumed' = r.session.was_resumed
              /\ ui_pc' = "constructed"
              /\ crashed' = ""
         ELSE /\ crashed' = r.raised
              /\ UNCHANGED <<source_languages, target_language,
                             speaker_profiles, final_tokens, segment_count,
                             was_resumed, ui_pc>>
    /\ saved' = [saved EXCEPT
                   !.args = Some([sources |-> sources, target |-> target])]
    /\ UNCHANGED <<audio_frames, diskVars, non_final_tokens, scroll_mode,
                   scroll_offset, scroll_lines, scroll_total_lines,
                   error_message, running, transcriber_running, receiver,
                   resolved, rendered, plain_text, delivered>>

\* entries of the speaker_profiles object of a state file
MaxEntries == 2

LoadKeys == {IntToStr(1), IntToStr(2), <<"x">>}

LoadData == {[language_counts |-> Some(<< <<"es", 2>> >>),
              last_language |-> Some("es"),
              total_samples |-> Some(2)],
             NotADict}

LoadObjects ==
    UNION { [keys -> LoadData] :
              keys \in { k \in SUBSET LoadKeys : Cardinality(k) <= MaxEntries } }

LoadDocuments ==
    { [source_languages |-> languages.sources,
       target_language |-> languages.target,
       segment_count |-> count,
       tokens |-> tokens,
       speaker_profiles |-> profiles] :
        languages \in { [sources |-> None, target |-> None],
                        [sources |-> Some(<<"de">>), target |-> None],
                        [sources |-> Some(<<"de">>), target |-> Some("it")] },
        count \in {None, Some(3)},
        tokens \in {None, Some(<<[HolaFinal EXCEPT
                                   !.resolved_language = Some("es")]>>)},
        profiles \in {None} \cup { Some(object) : object \in LoadObjects } }

LoadContents == {Unparsable, NotAnObject} \cup LoadDocuments

\* main.py before it constructs the Session, on any session directory
InitLoad ==
    /\ FreshSession(<<>>, "")
    /\ state_file \in {None} \cup { Some(content) : content \in LoadContents }
    /\ segment_files = <<>>
    /\ non_final_tokens = <<>>
    /\ scroll_mode = FALSE
    /\ scroll_offset = 0
    /\ scroll_lines = <<>>
    /\ scroll_total_lines = 0
    /\ error_message = ""
    /\ running = FALSE
    /\ ui_pc = "start"
    /\ NoCalls
    /\ NoThreads

NextLoad ==
    \E choice \in LanguageChoices :
        ConstructSession(choice.sources, choice.target)

SpecLoad == InitLoad /\ [][NextLoad]_vars

\* a state file that _load_state reads to its end: an object whose profile
\* entries all have a decimal key and an object as value
LoadsCleanly(content) ==
    /\ IsObject(content)
    /\ ~IsNone(content.speaker_profiles) =>
         \A key \in DOMAIN Val(content.speaker_profiles) :
            /\ IsDecimal(key)
            /\ "not_a_dict" \notin DOMAIN Val(content.speaker_profiles)[key]

Constructed == ui_pc = "constructed" /\ ~IsNone(saved.args)

\* C13: a session constructed on a state file whose load failed has empty
\* final_tokens, empty speaker_profiles, segment_count 0 and the languages
\* the constructor was given
C13_NothingKept ==
    ( /\ Constructed
      /\ ~IsNone(state_file)
      /\ ~LoadsCleanly(Val(state_file)) ) =>
        /\ final_tokens = <<>>
        /\ speaker_profiles = <<>>
        /\ segment_count = 0
        /\ source_languages = Val(saved.args).sources
        /\ target_language = Val(saved.args).target

\* C14: after construction was_resumed is true if and only if a state file
\* existed and was loaded to its end without error, and get_resume_info is
\* None exactly when the flag is false
C14_ResumedFlag ==
    Constructed =>
        /\ was_resumed <=> ( /\ ~IsNone(state_file)
                             /\ LoadsCleanly(Val(state_file)) )
        /\ IsNone(get_resume_info) <=> ~was_resumed

C14_Witness ==
    /\ Constructed
    /\ was_resumed
    /\ DOMAIN speaker_profiles = {1, 2}
    /\ segment_count = 3
    /\ get_resume_info = Some([segment_count |-> 3, token_count |-> 1,
                               speaker_count |-> 2])

\* C15: constructing the Session raises no error, whatever the state file holds
C15_NeverFatal == crashed = ""

\* the session is constructed on any session directory and its transcript
\* is rendered, on the screen and as plain text
NextResume ==
    \/ NextLoad
    \/ Constructed /\ RenderTranscript
    \/ Constructed /\ RenderPlainText

SpecResume == InitLoad /\ [][NextResume]_vars

\* C21: no call of the assembler or of the plain-text renderer changes
\* final_tokens, the set of speaker profiles or a field of a profile
C21_RenderingReadsOnly ==
    [][ (RenderTranscript \/ RenderPlainText) =>
            UNCHANGED <<final_tokens, speaker_profiles>> ]_vars

\* the samples a profile table holds for a speaker; a speaker without profile
\* has none
SamplesOf(profiles, speaker) ==
    IF speaker \in DOMAIN profiles
    THEN [language_counts |-> profiles[speaker].language_counts,
          last_language |-> profiles[speaker].last_language,
          total_samples |-> profiles[speaker].total_samples]
    ELSE [language_counts |-> <<>>, last_language |-> None, total_samples |-> 0]

\* C22: language_counts, total_samples and last_language of a speaker change
\* only in the turn of the token loop that ingests a finalized token with a
\* language
C22_OnlyFinalizedTokensCount ==
    [][ (\E speaker \in DOMAIN speaker_profiles' :
            SamplesOf(speaker_profiles', speaker)
                # SamplesOf(speaker_profiles, speaker)) =>
          /\ receiver.pc = "tokens"
          /\ receiver.pending # <<>>
          /\ IsFinalForIngest(Head(receiver.pending))
          /\ ~IsNone(Head(receiver.pending).language) ]_vars

\* hasattr(session, 'source_languages') in main.py:152: Session.__init__
\* assigns the attribute before it loads anything (session.py:80)
HasSourceLanguagesAttribute == TRUE

\* select_languages() when the user cancels
SelectionCancelled == [sources |-> <<>>, target |-> ""]

\* main.py:151-161 after the Session was constructed; selection is what
\* select_languages returns if it is called
CheckLanguageConfig(selection) ==
    /\ Constructed
    /\ IF was_resumed /\ ~HasSourceLanguagesAttribute
       THEN IF selection = SelectionCancelled
            THEN /\ ui_pc' = "done"
                 /\ UNCHANGED <<source_languages, target_language, state_file,
                                saved>>
            ELSE /\ ui_pc' = "configured"
                 /\ source_languages' = selection.sources
                 /\ target_language' = selection.target
                 /\ state_file' = Some(StateDocument(selection.sources,
                                        selection.target, segment_count,
                                        final_tokens, speaker_profiles))
                 /\ saved' = [saved EXCEPT
                                !.state = Some([Memory EXCEPT
                                    !.source_languages = selection.sources,
                                    !.target_language = selection.target]),
                                !.loaded = FALSE]
       ELSE /\ ui_pc' = "configured"
            /\ UNCHANGED <<source_languages, target_language, state_file,
                           saved>>
    /\ UNCHANGED <<speaker_profiles, final_tokens, segment_count, audio_frames,
                   was_resumed, segment_files, non_final_tokens, scroll_mode,
                   scroll_offset, scroll_lines, scroll_total_lines,
                   error_message, running, procVars, resolved, rendered,
                   plain_text>>

\* main.py from the construction of the Session to that of the Transcriber
NextMain ==
    \/ NextLoad
    \/ \E selection \in LanguageChoices \cup {SelectionCancelled} :
         CheckLanguageConfig(selection)

SpecMain == InitLoad /\ [][NextMain]_vars

\* C23: when a session was resumed from a state file that lacks a language
\* field, the program has chosen languages anew and saved the state, so that
\* the file holds both fields, before the transcriber is made
C23_MissingConfigReconfigures ==
    (ui_pc = "configured" /\ was_resumed) =>
        /\ ~IsNone(Val(state_file).source_languages)
        /\ ~IsNone(Val(state_file).target_language)

\* the text of str(e) for a failed recv
ConnectionError == "connection lost"

\* a receive loop that stops the transcriber when recv fails
ConnectionLostStopping(in_order) ==
    /\ receiver.pc = "recv"
    /\ receiver' = [IdleReceiver EXCEPT !.pc = "ended"]
    /\ error_message' = IF transcriber_running /\ ~in_order
                        THEN ConnectionError ELSE error_message
    /\ transcriber_running' = FALSE
    /\ UNCHANGED <<sessionVars, diskVars, non_final_tokens, scroll_mode,
                   scroll_offset, scroll_lines, scroll_total_lines, running,
                   ui_pc, crashed, delivered, callVars>>

\* recv or json.loads raises (transcription.py:221-225): the loop ends, and
\* the error goes to the UI unless the transcriber was stopped or the
\* connection was closed in order (ConnectionClosedOK)
ConnectionLost(in_order) ==
    /\ receiver.pc = "recv"
    /\ receiver' = [IdleReceiver EXCEPT !.pc = "ended"]
    /\ error_message' = IF transcriber_running /\ ~in_order
                        THEN ConnectionError ELSE error_message
    /\ UNCHANGED <<sessionVars, diskVars, non_final_tokens, scroll_mode,
                   scroll_offset, scroll_lines, scroll_total_lines, running,
                   ui_pc, transcriber_running, crashed, delivered, callVars>>

TransportMessages ==
    { Message(<<HolaFinal, HolPartial>>, None, FALSE),
      Message(<<SalutFinal>>, None, FALSE),
      Message(<<>>, Some("503"), FALSE) }

TransportInput == {"q", "v"}

\* the receive thread and the UI thread from the start of the run loop to
\* the end of run
NextTransport ==
    \/ \E message \in TransportMessages :
         Len(delivered) < MaxMessages /\ TakeMessage(message)
    \/ ProcessToken
    \/ NotifyTokens
    \/ \E in_order \in BOOLEAN : ConnectionLost(in_order)
    \/ \E inputs \in BoundedSeq(TransportInput, MaxKeys) : Tick(inputs)
    \/ LeaveLoop
    \/ Shutdown("missing")

SpecTransport == InitIngest /\ [][NextTransport]_vars

\* the step in which the receive loop ends on a server error message or on a
\* failed recv
TransportErrorStep ==
    /\ receiver.pc = "recv"
    /\ receiver'.pc = "ended"
    /\ (delivered' # delivered \/ error_message' = ConnectionError)

\* C24: a server error message or a connection failure is handed to the UI
\* as its status message and changes neither final_tokens nor the flags the
\* run loop tests; after it no token is appended to final_tokens; the run
\* loop is left only by the UI itself, and the save at shutdown writes every
\* token of final_tokens into the segment and the state file
C24_TransportErrorsAreLossless ==
    [][ /\ TransportErrorStep =>
             /\ error_message' # ""
             /\ UNCHANGED <<final_tokens, running, transcriber_running, ui_pc>>
        /\ receiver.pc = "ended" =>
             /\ final_tokens' = final_tokens
             /\ receiver' = receiver
        /\ (ui_pc = "loop" /\ ui_pc' = "loop") =>
             /\ transcriber_running'
             /\ running' # running => (running /\ receiver' = receiver)
        /\ (receiver.pc = "ended" /\ ui_pc = "stopping" /\ ui_pc' = "done"
              /\ final_tokens # <<>>) =>
             /\ Val(state_file').tokens = Some(final_tokens)
             /\ segment_files'[segment_count'].json.tokens = final_tokens
      ]_vars

C24_Witness ==
    /\ ui_pc = "done"
    /\ receiver.pc = "ended"
    /\ Len(delivered) = 2
    /\ ~IsNone(delivered[2].error_code)
    /\ error_message = ""
    /\ UntaggedAll(final_tokens) = <<HolaFinal>>
    /\ UntaggedAll(non_final_tokens) = <<HolPartial>>
    /\ Val(state_file).tokens = Some(final_tokens)

\* C25: a turn of the token loop on a token without text changes neither the
\* profiles nor final_tokens nor the snapshot under construction and goes on
\* with the next token; a turn on a token with text tags it and appends it
\* to final_tokens if it is final and to the snapshot otherwise; the
\* callback then stores the snapshot
C25_TextlessTokenSkipped ==
    [][ /\ (receiver.pc = "tokens" /\ receiver'.pc = "tokens"
              /\ receiver' # receiver) =>
             LET token == Head(receiver.pending)
                 added == IF IsFinalForIngest(token) THEN final_tokens'
                          ELSE receiver'.non_final
                 kept == IF IsFinalForIngest(token) THEN receiver'.non_final
                         ELSE final_tokens'
             IN  /\ receiver'.pending = Tail(receiver.pending)
                 /\ IF HasText(token)
                    THEN /\ Len(added) > 0
                         /\ Untagged(added[Len(added)]) = token
                         /\ ~IsNone(added[Len(added)].resolved_language)
                         /\ SubSeq(added, 1, Len(added) - 1)
                              = (IF IsFinalForIngest(token) THEN final_tokens
                                 ELSE receiver.non_final)
                         /\ kept = (IF IsFinalForIngest(token)
                                    THEN receiver.non_final ELSE final_tokens)
                    ELSE /\ UNCHANGED <<speaker_profiles, final_tokens>>
                         /\ receiver'.non_final = receiver.non_final
        /\ (receiver.pc = "tokens" /\ receiver'.pc # "tokens") =>
             /\ non_final_tokens' = receiver.non_final
             /\ UntaggedAll(non_final_tokens')
                  = SelectSeq(delivered[Len(delivered)].tokens,
                       LAMBDA t : HasText(t) /\ ~IsFinalForIngest(t))
      ]_vars

C25_Witness ==
    /\ BetweenMessages
    /\ Len(delivered) = 1
    /\ delivered[1].tokens = <<SalutFinal, BlankFinal, HolaFinal>>
    /\ UntaggedAll(final_tokens) = <<SalutFinal, HolaFinal>>
    /\ final_tokens[2].resolved_language = Some("es")
    /\ SamplesOf(speaker_profiles, 1).total_samples = 1

NoSpeakerCall ==
    /\ ~IsNone(resolved.token)
    /\ IsNone(Val(resolved.token).speaker)

\* C26: a call for a token without speaker id returns the token's language,
\* or "en" when it has none, and leaves the profile table as it was,
\* whatever the confidence
C26_NoSpeakerNoProfile ==
    NoSpeakerCall =>
        /\ resolved.result = IF IsNone(Val(resolved.token).language)
                             THEN Some("en")
                             ELSE Val(resolved.token).language
        /\ speaker_profiles = resolved.before

C26_Witness ==
    /\ NoSpeakerCall
    /\ IsNone(Val(resolved.token).language)
    /\ Val(resolved.token).language_confidence = Some(20)
    /\ resolved.result = Some("en")
    /\ Cardinality(DOMAIN speaker_profiles) = 2

NoLanguageCall ==
    /\ ~IsNone(resolved.token)
    /\ ~IsNone(Val(resolved.token).speaker)
    /\ IsNone(Val(resolved.token).language)

\* C27: a call for a token with a speaker id and no language returns the
\* speaker's last_language if there is one and "en" otherwise, and records
\* no sample: language_counts, total_samples and last_language of every
\* speaker are what they were
C27_NoLanguageFallsBack ==
    NoLanguageCall =>
        /\ resolved.result = IF IsNone(ProfileBefore.last_language)
                             THEN Some("en")
                             ELSE ProfileBefore.last_language
        /\ \A speaker \in DOMAIN speaker_profiles :
              SamplesOf(speaker_profiles, speaker)
                = SamplesOf(resolved.before, speaker)
        /\ DOMAIN speaker_profiles = DOMAIN resolved.before \cup {CalledSpeaker}

C27_Witness ==
    /\ NoLanguageCall
    /\ CalledSpeaker \in DOMAIN resolved.before
    /\ ProfileBefore.last_language = Some("fr")
    /\ ProfileBefore.total_samples = 2
    /\ resolved.result = Some("fr")
    /\ IsNone(Val(resolved.token).language_confidence)

\* C28: in scroll mode, g typed at the terminal moves the offset to 0 and G
\* typed at the terminal moves it to max(0, totalLines - pageSize)
C28_JumpKeysFromTerminal ==
    scroll_mode =>
        /\ HandleKeys(UIState, <<"g">>).scroll_offset = 0
        /\ HandleKeys(UIState, <<"G">>).scroll_offset
             = Max(0, scroll_total_lines - SCROLL_PAGE_SIZE)

\* whether the k-th token empties the buffers before its text is added: its
\* speaker differs (ui.py:431-440), or it is an original whose language
\* differs from the current one or that follows a translation (ui.py:461-480)
StartsFrom(st, token) ==
    LET changed == ~IsNone(token.speaker) /\ token.speaker # st.current_speaker
        lang == IF changed THEN token.language ELSE st.current_lang
        translation == IF changed THEN <<>> ELSE st.translation_buffer
    IN  \/ changed
        \/ /\ ~IsTranslation(token)
           /\ \/ (Truthy(token.language) /\ Truthy(lang) /\ token.language # lang)
              \/ translation # <<>>

StartsRun(all, k, target) == StartsFrom(Fold(all, k - 1, target, <<>>), all[k])

\* the tokens whose text is in the buffers after the first k tokens
RECURSIVE Contributors(_, _, _)
Contributors(all, k, target) ==
    IF k = 0 THEN {}
    ELSE IF IsSkipped(all[k], target) THEN Contributors(all, k - 1, target)
    ELSE IF StartsRun(all, k, target) THEN {k}
    ELSE Contributors(all, k - 1, target) \cup {k}

\* the text after the k-th token, and after the final flush for k = Len + 1
TextAfter(all, k, target) ==
    IF k <= Len(all) THEN Fold(all, k, target, <<>>).text
    ELSE FinalFlush(Fold(all, Len(all), target, <<>>), target)

\* a span that shows buffered text: not a speaker header, a paragraph break,
\* a language marker or a parenthesis
IsContentSpan(span) ==
    /\ span.style \notin {<<>>, <<"dim">>}
    /\ span.style[1] # "bold"

IsProvisionalSpan(span) == \E i \in 1..Len(span.style) : span.style[i] = "italic"

\* the content spans of the run that the k-th step flushes
FlushedContent(all, k, target) ==
    LET before == TextAfter(all, k - 1, target)
        after == TextAfter(all, k, target)
    IN  SelectSeq(SubSeq(after, Len(before) + 1, Len(after)), IsContentSpan)

\* C29: every run the assembler emits has provisional styling if and only if
\* one of the tokens that contributed text to it is non-final, and finalized
\* styling if and only if all of them are final
C29_FinalityIsConjunction ==
    rendered.done =>
        LET all == RenderedTokens
            target == rendered.target
        IN  \A k \in 1..(Len(all) + 1) :
              \A i \in 1..Len(FlushedContent(all, k, target)) :
                 IsProvisionalSpan(FlushedContent(all, k, target)[i])
                   <=> \E j \in Contributors(all, k - 1, target) :
                          ~IsFinalForRender(all[j])

\* the spans the assembler has emitted for the token sequence h before its
\* final flush
FlushedBeforeEnd(h, target) == Fold(h, Len(h), target, <<>>).text

\* C30: for every finalized sequence h that the rendered token list extends
\* (by finalized tokens or by the non-final snapshot), the spans emitted for
\* h before its final flush stand unchanged, content and styling, at the
\* same positions of the rendered text; what follows them is appended
C30_FlushedRunsAreMonotonic ==
    rendered.done =>
        \A k \in 0..Len(rendered.final) :
            IsPrefix(FlushedBeforeEnd(SubSeq(rendered.final, 1, k),
                                      rendered.target),
                     rendered.text)

C30_Witness ==
    /\ rendered.done
    /\ Len(rendered.final) = 2
    /\ rendered.non_final # <<>>
    /\ Len(FlushedBeforeEnd(SubSeq(rendered.final, 1, 1), rendered.target)) = 1
    /\ Len(FlushedBeforeEnd(rendered.final, rendered.target)) >= 4
    /\ \E i \in 1..Len(FlushedBeforeEnd(rendered.final, rendered.target)) :
          IsContentSpan(FlushedBeforeEnd(rendered.final, rendered.target)[i])
    /\ Len(rendered.text) > Len(FlushedBeforeEnd(rendered.final, rendered.target))
    /\ IsProvisionalSpan(rendered.text[Len(rendered.text)])

\* the spans of the run that the k-th step emits (k = Len + 1: the final
\* flush): what the step appends, without paragraph break and speaker header
EmittedBetween(before, after) ==
    SelectSeq(SubSeq(after, Len(before) + 1, Len(after)),
              LAMBDA span : span.style # <<>> /\ span.style[1] # "bold")

EmittedRun(all, k, target) ==
    EmittedBetween(TextAfter(all, k - 1, target), TextAfter(all, k, target))

\* the fold states after 0..Len tokens, and the runs that the steps
\* 1..Len + 1 emit, of one rendering
FoldStates(all, target) == [k \in 0..Len(all) |-> Fold(all, k, target, <<>>)]

EmittedRuns(all, target, folds) ==
    [k \in 1..(Len(all) + 1) |->
        EmittedBetween(folds[k - 1].text,
                       IF k <= Len(all) THEN folds[k].text
                       ELSE FinalFlush(folds[Len(all)], target))]

\* the tokens whose text is in the buffers before the k-th step
BufferedBefore(all, k, target, folds) ==
    { j \in 1..(k - 1) :
        /\ ~IsSkipped(all[j], target)
        /\ \A i \in (j + 1)..(k - 1) :
              IsSkipped(all[i], target) \/ ~StartsFrom(folds[i - 1], all[i]) }

\* the k-th token is an original of the current speaker whose language
\* differs from the language of the buffered original text
SwitchesFrom(st, token, target) ==
    /\ ~IsSkipped(token, target)
    /\ ~IsTranslation(token)
    /\ ~(~IsNone(token.speaker) /\ token.speaker # st.current_speaker)
    /\ st.original_buffer # <<>>
    /\ Truthy(token.language) /\ Truthy(st.current_lang)
    /\ token.language # st.current_lang

SwitchesLanguage(all, k, target) ==
    SwitchesFrom(Fold(all, k - 1, target, <<>>), all[k], target)

\* the languages of the original-role tokens among the contributors
OriginalLanguages(all, members) ==
    { all[j].language : j \in { i \in members : ~IsTranslation(all[i]) } }

FlagRequested(all, k, target) ==
    LET st == Fold(all, k - 1, target, <<>>)
    IN  IF k <= Len(all) /\ SwitchesLanguage(all, k, target) THEN TRUE
        ELSE st.should_show_flag

IsMarkerOf(span, lang) ==
    span = Span(<<" ", _get_language_flag(lang)>>, <<"dim">>)

\* C32: every run the assembler emits carries the language indicator exactly
\* when the flush was asked for it (show_flag) and the language of the run
\* is known, whether the run is finalized or provisional; the indicator then
\* stands directly after the original text and before the parenthesis
C32_IndicatorWhenRequested ==
    rendered.done =>
        LET all == RenderedTokens
            target == rendered.target
        IN  \A k \in 1..(Len(all) + 1) :
              LET st == Fold(all, k - 1, target, <<>>)
                  run == EmittedRun(all, k, target)
                  orig == clean_display_text(st.original_buffer)
                  at == IF orig = <<>> THEN 1 ELSE 2
              IN  run # <<>> =>
                    /\ (\E i \in 1..Len(run) :
                           Truthy(st.current_lang)
                           /\ IsMarkerOf(run[i], Val(st.current_lang)))
                         <=> (FlagRequested(all, k, target)
                              /\ Truthy(st.current_lang))
                    /\ \A i \in 1..Len(run) :
                         (Truthy(st.current_lang)
                          /\ IsMarkerOf(run[i], Val(st.current_lang))) => i = at

\* the run that the k-th step emits is the first non-empty run of the
\* speaker whose header was emitted last
FirstRunOfSpeaker(all, k, target) ==
    /\ EmittedRun(all, k, target) # <<>>
    /\ \E j \in 1..(k - 1) :
          /\ ChangesSpeaker(all, j, target)
          /\ \A i \in (j + 1)..(k - 1) :
                /\ ~ChangesSpeaker(all, i, target)
                /\ EmittedRun(all, i, target) = <<>>

HasMarker(run) ==
    \E i \in 1..Len(run) :
       \E lang \in {"fr", "en"} : IsMarkerOf(run[i], lang)

\* C33: after every speaker change the first non-empty run emitted for the
\* new speaker is flushed with show_flag set, whichever step flushes it (a
\* language switch, a completed pair, the next speaker change or the final
\* flush); a finalized run of a known language so shows the marker
C33_FreshSpeakerShowsMarker ==
    rendered.done =>
        LET all == RenderedTokens
            target == rendered.target
        IN  \E folds \in {FoldStates(all, target)} :
            \E runs \in {EmittedRuns(all, target, folds)},
               changes \in {[k \in 1..Len(all) |->
                               /\ ~IsSkipped(all[k], target)
                               /\ ~IsNone(all[k].speaker)
                               /\ all[k].speaker # folds[k - 1].current_speaker]} :
            \A k \in 1..(Len(all) + 1) :
              (/\ runs[k] # <<>>
               /\ \E j \in 1..(k - 1) :
                     /\ changes[j]
                     /\ \A i \in (j + 1)..(k - 1) :
                           ~changes[i] /\ runs[i] = <<>>)
              => /\ \/ k <= Len(all) /\ SwitchesFrom(folds[k - 1], all[k], target)
                    \/ folds[k - 1].should_show_flag
                 /\ (\A i \in 1..Len(runs[k]) : ~IsProvisionalSpan(runs[k][i]))
                      => HasMarker(runs[k])

\* a completed pair closes the first run of a speaker, with its marker
C33_Witness ==
    /\ rendered.done
    /\ \E k \in 1..Len(RenderedTokens) :
          /\ FirstRunOfSpeaker(RenderedTokens, k, rendered.target)
          /\ ~ChangesSpeaker(RenderedTokens, k, rendered.target)
          /\ ~SwitchesLanguage(RenderedTokens, k, rendered.target)
          /\ HasMarker(EmittedRun(RenderedTokens, k, rendered.target))

-----------------------------------------------------------------------------
(* The assembler on longer finalized streams of one conversation: up to     *)
(* MaxPairTokens finalized tokens, no non-final snapshot                    *)

MaxPairTokens == 4

PairTokens ==
    { OriginalFr(Some(1), TRUE), TranslationFr(Some(1), TRUE),
      OriginalEn(Some(1), TRUE), OriginalFr(Some(2), TRUE) }

InitPair ==
    /\ source_languages = <<"fr">>
    /\ target_language = "en"
    /\ \E f \in BoundedSeq(PairTokens, MaxPairTokens) :
          LET fin == IngestAll(f, <<>>)
          IN  /\ final_tokens = fin.tokens
              /\ speaker_profiles = fin.profiles
    /\ non_final_tokens = <<>>
    /\ segment_count = 0
    /\ audio_frames = <<>>
    /\ was_resumed = FALSE
    /\ state_file = None
    /\ segment_files = <<>>
    /\ scroll_mode = FALSE
    /\ scroll_offset = 0
    /\ scroll_lines = <<>>
    /\ scroll_total_lines = 0
    /\ error_message = ""
    /\ running = FALSE
    /\ ui_pc = "constructed"
    /\ NoCalls
    /\ NoThreads

NextPair == RenderTranscript \/ RenderPlainText

SpecPair == InitPair /\ [][NextPair]_vars

\* the k-th token is an original of the current speaker and language that
\* arrives while translation text is buffered (ui.py:471)
CompletesPair(all, k, target) ==
    LET st == Fold(all, k - 1, target, <<>>)
        token == all[k]
    IN  /\ ~IsSkipped(token, target)
        /\ ~IsTranslation(token)
        /\ ~ChangesSpeaker(all, k, target)
        /\ ~(Truthy(token.language) /\ Truthy(st.current_lang)
             /\ token.language # st.current_lang)
        /\ st.translation_buffer # <<>>

\* the text that the contributors of one role add to their buffer, in stream
\* order: the token that changed the speaker is left-trimmed (ui.py:450)
RECURSIVE JoinTexts(_, _, _, _, _)
JoinTexts(all, members, j, target, translation) ==
    IF j = 0 THEN <<>>
    ELSE JoinTexts(all, members, j - 1, target, translation)
         \o (IF j \in members /\ IsTranslation(all[j]) = translation
             THEN IF ChangesSpeaker(all, j, target)
                  THEN lstrip(all[j].text) ELSE all[j].text
             ELSE <<>>)

\* the step after k that emits the run which the k-th token starts
ClosingStep(all, k, target) ==
    IF \E m \in (k + 1)..Len(all) :
          ~IsSkipped(all[m], target) /\ StartsRun(all, m, target)
    THEN CHOOSE m \in (k + 1)..Len(all) :
            /\ ~IsSkipped(all[m], target) /\ StartsRun(all, m, target)
            /\ \A i \in (k + 1)..(m - 1) :
                  IsSkipped(all[i], target) \/ ~StartsRun(all, i, target)
    ELSE Len(all) + 1

\* C34: an original of the current speaker and language that arrives while
\* translation text is buffered makes the step emit the buffered pair as one
\* run, leaves only its own text buffered and clears show_flag; every
\* emitted run is the original text of its tokens followed by their
\* translation text; and the run that such a token starts carries no
\* language marker
C34_CompletedPairIsFlushed ==
    rendered.done =>
        LET all == RenderedTokens
            target == rendered.target
        IN  /\ \A k \in 1..Len(all) :
                 CompletesPair(all, k, target) =>
                    LET st == Fold(all, k - 1, target, <<>>)
                        after == Fold(all, k, target, <<>>)
                    IN  /\ after.original_buffer = all[k].text
                        /\ after.translation_buffer = <<>>
                        /\ ~after.should_show_flag
                        /\ \E fin \in BOOLEAN :
                              EmittedRun(all, k, target) =
                                 _flush_buffers_with_flag(<<>>, st.original_buffer,
                                     st.translation_buffer, st.current_lang,
                                     fin, st.should_show_flag, target)
            /\ \A k \in 1..(Len(all) + 1) :
                 LET members == Contributors(all, k - 1, target)
                     st == Fold(all, k - 1, target, <<>>)
                 IN  EmittedRun(all, k, target) # <<>> =>
                        \E fin \in BOOLEAN, flag \in BOOLEAN :
                           EmittedRun(all, k, target) =
                              _flush_buffers_with_flag(<<>>,
                                  JoinTexts(all, members, k - 1, target, FALSE),
                                  JoinTexts(all, members, k - 1, target, TRUE),
                                  st.current_lang, fin, flag, target)
            /\ \A k \in 1..Len(all) :
                 CompletesPair(all, k, target) =>
                    ~HasMarker(EmittedRun(all, ClosingStep(all, k, target), target))

\* the assembler's output with styling removed: the text of its spans,
\* without the speaker emoji of the headers and without language markers
RECURSIVE Unstyled(_)
Unstyled(spans) ==
    IF spans = <<>> THEN <<>>
    ELSE LET span == Head(spans)
             shown == IF span.style # <<>> /\ span.style[1] = "bold"
                      THEN SubSeq(span.text, 3, Len(span.text))
                      ELSE IF HasMarker(<<span>>) THEN <<>>
                      ELSE span.text
         IN  shown \o Unstyled(Tail(spans))

\* a text without its white space
Words(text) == SelectSeq(text, LAMBDA a : ~IsBlank(a))

\* C35: for every finalized token sequence the text of render_plain_text,
\* which save_segment writes as the transcript, is the assembler's output
\* with styling removed: the same headers, runs and pairing, each
\* translation in parentheses after its original (compared up to white space)
C35_PlainTextFollowsAssembler ==
    plain_text.done =>
        Words(plain_text.text)
          = Words(Unstyled(_render_transcript(final_tokens, <<>>,
                               target_language, speaker_profiles).text))

\* the languages of a profile in the order the speaker used them first: the
\* key order of the language_counts dict
SeenOrder(profile) ==
    [i \in 1..Len(profile.language_counts) |-> profile.language_counts[i][1]]

\* the dominant language of the profile is None without samples and
\* otherwise a language of maximal count, the first seen among those
DominantIsFirstSeenMaximum(profile) ==
    LET counts == profile.language_counts
        dominant == get_dominant_language(profile)
    IN  IF profile.total_samples = 0 THEN IsNone(dominant)
        ELSE \E i \in 1..Len(counts) :
                /\ dominant = Some(counts[i][1])
                /\ \A j \in 1..Len(counts) :
                      /\ counts[j][2] <= counts[i][2]
                      /\ counts[j][2] = counts[i][2] => i <= j

\* C36: in every step, each profile's dominant language is None without
\* samples and otherwise the first-seen language among those of maximal
\* count; a sample keeps the first-seen order and puts a new language last;
\* and the profiles loaded after save_state have the order and the dominant
\* language of the profiles saved
C36_DominantLanguage ==
    [][ /\ \A sid \in DOMAIN speaker_profiles' :
             DominantIsFirstSeenMaximum(speaker_profiles'[sid])
        /\ \A sid \in DOMAIN speaker_profiles \cap DOMAIN speaker_profiles' :
             speaker_profiles'[sid].total_samples
                = speaker_profiles[sid].total_samples + 1
             => LET new == Val(speaker_profiles'[sid].last_language)
                    old == SeenOrder(speaker_profiles[sid])
                IN  SeenOrder(speaker_profiles'[sid])
                      = IF \E i \in 1..Len(old) : old[i] = new
                        THEN old ELSE Append(old, new)
        /\ saved'.loaded =>
             /\ DOMAIN speaker_profiles' = DOMAIN Val(saved'.state).speaker_profiles
             /\ \A sid \in DOMAIN speaker_profiles' :
                  /\ SeenOrder(speaker_profiles'[sid])
                       = SeenOrder(Val(saved'.state).speaker_profiles[sid])
                  /\ get_dominant_language(speaker_profiles'[sid])
                       = get_dominant_language(
                            Val(saved'.state).speaker_profiles[sid])
      ]_vars

\* a speaker with two languages of equal count, loaded from the state file
C36_Witness ==
    /\ saved.loaded
    /\ 12 \in DOMAIN speaker_profiles
    /\ speaker_profiles[12].language_counts = << <<"fr", 1>>, <<"es", 1>> >>
    /\ get_dominant_language(speaker_profiles[12]) = Some("fr")
    /\ speaker_profiles[12].last_language = Some("es")

AllFinal(tokens) == \A i \in 1..Len(tokens) : tokens[i].is_final = Some(TRUE)

\* the non-final tokens with text of a message, as the server sent them
NonFinalOf(message) ==
    SelectSeq(message.tokens, LAMBDA t : HasText(t) /\ ~IsFinalForIngest(t))

\* C37: no step leaves a token that is not final in final_tokens, in the
\* tokens of the state file or in the tokens of a segment record; the
\* non-final snapshot changes only when a batch is delivered, and is then
\* exactly the non-final tokens of that batch
C37_NonFinalNeverStored ==
    [][ /\ AllFinal(final_tokens')
        /\ ~IsNone(state_file') => AllFinal(Val(Val(state_file').tokens))
        /\ \A n \in DOMAIN segment_files' :
              AllFinal(segment_files'[n].json.tokens)
        /\ non_final_tokens' # non_final_tokens =>
              /\ receiver.pc = "tokens" /\ receiver'.pc # "tokens"
              /\ UntaggedAll(non_final_tokens')
                   = NonFinalOf(delivered[Len(delivered)])
        /\ (receiver.pc = "tokens" /\ receiver'.pc # "tokens") =>
              UntaggedAll(non_final_tokens')
                 = NonFinalOf(delivered[Len(delivered)])
      ]_vars

\* a non-final token was delivered and then replaced by an empty snapshot,
\* and the shutdown save wrote the state and a segment
C37_Witness ==
    /\ ui_pc = "done"
    /\ Len(delivered) = 2
    /\ NonFinalOf(delivered[1]) # <<>>
    /\ non_final_tokens = <<>>
    /\ Len(final_tokens) = 2
    /\ ~IsNone(state_file)
    /\ Val(Val(state_file).tokens) = final_tokens
    /\ segment_count = 1
    /\ segment_files[1].json.tokens = final_tokens

\* C38: once the shutdown save has run no step appends a token to
\* final_tokens, and from then on the tokens of the state file are the
\* final_tokens in memory
C38_NoTokenLostAtShutdown ==
    [][ /\ ui_pc = "done" => final_tokens' = final_tokens
        /\ (ui_pc' = "done" /\ final_tokens' # <<>>) =>
              /\ ~IsNone(state_file')
              /\ Val(state_file').tokens = Some(final_tokens')
      ]_vars

\* the last call was for a speaker without last_language, with a token that
\* carries a language
FirstLanguageCall ==
    /\ ~IsNone(resolved.token)
    /\ ~IsNone(Val(resolved.token).speaker)
    /\ IsNone(ProfileBefore.last_language)
    /\ ~IsNone(Val(resolved.token).language)

\* C39: a call for a speaker whose profile has no last_language, with a
\* token that carries a language, returns that language and records it as a
\* sample of the speaker, whatever the confidence of the token; no other
\* profile changes
C39_FirstLanguageIgnoresThreshold ==
    FirstLanguageCall =>
        /\ resolved.result = Val(resolved.token).language
        /\ speaker_profiles
             = [get_speaker_profile(resolved.before, CalledSpeaker)
                  EXCEPT ![CalledSpeaker] =
                     add_sample(ProfileBefore,
                                Val(Val(resolved.token).language))]
        /\ speaker_profiles[CalledSpeaker].total_samples
             = ProfileBefore.total_samples + 1
        /\ speaker_profiles[CalledSpeaker].last_language
             = Val(resolved.token).language

\* a token of confidence 0.2 for a speaker whose profile exists without
\* last_language
C39_Witness ==
    /\ FirstLanguageCall
    /\ Val(resolved.token).language_confidence = Some(20)
    /\ Val(resolved.token).language = Some("fr")
    /\ CalledSpeaker \in DOMAIN resolved.before
    /\ resolved.result = Some("fr")
    /\ speaker_profiles[CalledSpeaker].language_counts = << <<"fr", 1>> >>

\* C40: in live mode the key v typed at the terminal, with no finalized
\* token, leaves scroll mode off and the offset and the scroll content as
\* they were and sets the error message "No transcript yet"; with a
\* finalized token it turns scroll mode on, prepares the scroll content from
\* the transcript and puts the offset at max(0, totalLines - pageSize)
C40_EnterScrollMode ==
    ~scroll_mode =>
        LET entered == HandleKeys(UIState, <<"v">>)
        IN  IF final_tokens = <<>>
            THEN /\ ~entered.scroll_mode
                 /\ entered.scroll_offset = scroll_offset
                 /\ entered.scroll_lines = scroll_lines
                 /\ entered.scroll_total_lines = scroll_total_lines
                 /\ entered.running = running
                 /\ entered.error_message = "No transcript yet"
            ELSE /\ entered.scroll_mode
                 /\ entered.scroll_lines
                      = split(_render_transcript(final_tokens, non_final_tokens,
                                  target_language, speaker_profiles).text)
                 /\ entered.scroll_total_lines = Len(entered.scroll_lines)
                 /\ entered.scroll_offset
                      = Max(0, entered.scroll_total_lines - SCROLL_PAGE_SIZE)
                 /\ entered.error_message = error_message

\* scroll mode was entered on a transcript longer than a page: the offset
\* stands at the bottom
C40_Witness ==
    /\ scroll_mode
    /\ ui_pc = "loop"
    /\ final_tokens # <<>>
    /\ scroll_total_lines > SCROLL_PAGE_SIZE
    /\ scroll_offset = scroll_total_lines - SCROLL_PAGE_SIZE
    /\ HandleKeys([UIState EXCEPT !.scroll_mode = FALSE], <<"v">>).scroll_offset
         = scroll_offset

\* what a redraw reads at the boundary after the k-th message taken: the
\* finalized tokens of messages 1..k and the non-final tokens of message k
\* (a message with an error code is no batch and leaves both as they were)
RECURSIVE BatchBoundary(_)
BatchBoundary(k) ==
    IF k = 0 THEN [final |-> <<>>, non_final |-> <<>>]
    ELSE LET before == BatchBoundary(k - 1)
         IN  IF ~IsNone(delivered[k].error_code) THEN before
           ELSE [final |-> before.final
                           \o SelectSeq(delivered[k].tokens,
                                 LAMBDA t : HasText(t) /\ IsFinalForIngest(t)),
                 non_final |-> SelectSeq(delivered[k].tokens,
                                 LAMBDA t : HasText(t) /\ ~IsFinalForIngest(t))]

\* C17: every redraw reads a final_tokens list and a non-final snapshot that
\* belong to one batch boundary: all finalized tokens of batches 1..k and the
\* non-final tokens of batch k, for some k
C17_RenderAtBatchBoundary ==
    rendered.done =>
        \E k \in 0..Len(delivered) :
            /\ UntaggedAll(rendered.final) = BatchBoundary(k).final
            /\ UntaggedAll(rendered.non_final) = BatchBoundary(k).non_final

\* C16: when the run loop has ended after a successful start, the finally
\* block first stops the transcriber and then calls save_segment once if
\* final_tokens is not empty and not at all if it is empty; no other step of
\* the UI saves a segment
C16_ShutdownSave ==
    [][ /\ (ui_pc = "loop" /\ ui_pc' # "loop") =>
             /\ ui_pc' = "stopping"
             /\ ~running' /\ ~transcriber_running'
             /\ UNCHANGED <<segment_count, segment_files, state_file>>
        /\ (ui_pc = "stopping" /\ ui_pc' # "stopping") =>
             /\ ui_pc' = "done"
             /\ ~transcriber_running /\ ~transcriber_running'
             /\ IF final_tokens # <<>>
                THEN /\ segment_count' = segment_count + 1
                     /\ DOMAIN segment_files'
                          = DOMAIN segment_files \cup {segment_count + 1}
                     /\ Val(saved'.segment).number = segment_count + 1
                ELSE UNCHANGED <<segment_count, segment_files, state_file>>
        /\ ~(ui_pc = "stopping" /\ ui_pc' = "done") =>
             UNCHANGED <<segment_count, segment_files, state_file>>
        /\ ui_pc = "done" => UNCHANGED vars
      ]_vars

C16_Witness ==
    /\ ui_pc = "done"
    /\ ~transcriber_running
    /\ segment_count = 1
    /\ DOMAIN segment_files = {1}
    /\ Len(final_tokens) = BurstLen
    /\ scroll_mode

\* C18: from the step that enters scroll mode until the step that leaves it,
\* the scroll lines and the total line count stay what they were on entry
C18_ScrollSnapshot ==
    [][ (scroll_mode /\ scroll_mode') =>
            /\ scroll_lines' = scroll_lines
            /\ scroll_total_lines' = scroll_total_lines ]_vars

\* segments are saved and the program is started again on the same session
\* directory
NextNumbering ==
    \/ SegmentReceive
    \/ \E outcome \in TranscodeOutcomes :
         segment_count < MaxSegments /\ SaveSegment(outcome)
    \/ \E choice \in LanguageChoices : Restart(choice.sources, choice.target)

SpecNumbering == InitSegment /\ [][NextNumbering]_vars

\* C19: after save_segment returns, the audio_frames buffer is empty
C19_AudioFlushed ==
    [][ saved'.segment # saved.segment => audio_frames' = <<>> ]_vars

\* C20: segment_count never decreases and grows by exactly one per
\* save_segment call, which uses a segment number no earlier save used and
\* leaves the same count in the state file; a session resumed from the state
\* file starts with the count of the file
C20_SegmentNumbering ==
    [][ /\ segment_count' >= segment_count
        /\ saved'.segment # saved.segment =>
             /\ segment_count' = segment_count + 1
             /\ Val(saved'.segment).number = segment_count'
             /\ segment_count' \notin DOMAIN segment_files
             /\ segment_count' \in DOMAIN segment_files'
             /\ Val(state_file').segment_count = Some(segment_count')
        /\ segment_count' # segment_count => saved'.segment # saved.segment
        /\ saved'.loaded => Val(state_file').segment_count = Some(segment_count')
      ]_vars

C20_Witness ==
    /\ segment_count = 2
    /\ DOMAIN segment_files = {1, 2}
    /\ was_resumed
    /\ Val(saved.segment).number = 2
    /\ Val(state_file).segment_count = Some(2)

\* C11: final_tokens is append-only: in every step of the running program
\* (messages received, redraws with their key events and scroll operations,
\* the save at shutdown) the old final_tokens is a prefix of the new one, so
\* no recorded token is removed or modified
C11_AppendOnly == [][IsPrefix(final_tokens, final_tokens')]_vars

C11_Witness ==
    /\ ui_pc = "done"
    /\ segment_count = 1
    /\ Len(final_tokens) = 2 * BurstLen
    /\ scroll_total_lines > SCROLL_PAGE_SIZE
    /\ final_tokens[1].resolved_language = Some("es")

\* C9: save_state followed by constructing a fresh Session on the same name
\* and directory reproduces the final_tokens, the speaker_profiles (integer
\* ids, language_counts, last_language, total_samples) and the language
\* configuration that were saved, whatever languages the constructor is given
C9_RoundTrip ==
    saved.loaded =>
        /\ final_tokens = Val(saved.state).final_tokens
        /\ speaker_profiles = Val(saved.state).speaker_profiles
        /\ source_languages = Val(saved.state).source_languages
        /\ target_language = Val(saved.state).target_language
        /\ was_resumed

C9_Witness ==
    /\ saved.loaded
    /\ Len(final_tokens) = 2
    /\ DOMAIN speaker_profiles = {1, 12}
    /\ speaker_profiles[12].last_language = Some("fr")
    /\ speaker_profiles[12].total_samples = 2
    /\ Val(saved.state).target_language = "fr"
    /\ final_tokens[1].resolved_language = Some("es")
    /\ non_final_tokens = <<>>

AudioSaved ==
    /\ ~IsNone(saved.segment)
    /\ Val(saved.segment).frames # <<>>

\* C10: whatever the transcode did other than succeed (non-zero exit,
\* timeout, transcoder missing), the segment's uncompressed audio file exists
\* after save_segment and holds the bytes of all buffered frames in order;
\* the file is absent only when the transcode reported success
C10_AudioIsKept ==
    AudioSaved =>
        LET segment == Val(saved.segment)
            audio == segment_files[segment.number].audio
        IN  /\ segment.outcome # "ok" =>
                 audio.wav = Some(JoinFrames(segment.frames))
            /\ IsNone(audio.wav) => segment.outcome = "ok"

C10_Witness ==
    /\ AudioSaved
    /\ Val(saved.segment).outcome = "timeout"
    /\ Val(saved.segment).frames = << <<2, 3>>, <<1>> >>
    /\ segment_files[Val(saved.segment).number].audio.wav = Some(<<2, 3, 1>>)

=============================================================================
